---------------------------- MODULE Spec2Model ----------------------------
(***************************************************************************)
(* Finite-difference relaxation and halo-exchange scheduling of the GPAW   *)
(* C extension: bmgs_relax (c/bmgs/relax.c), the host relax/apply loops    *)
(* (c/cuda/operators-cuda.c) and the device relax/apply with overlap of    *)
(* communication and computation (c/gpu/operators.c).                      *)
(*                                                                         *)
(* Field values are exact rationals <<num, den>>.  The inputs are dyadic   *)
(* (centre coefficients are powers of two, weights 0, 1/2, 1), so every    *)
(* double operation of the code is exact on them and the rational result   *)
(* is the double result.                                                   *)
(***************************************************************************)
EXTENDS Integers, Sequences, FiniteSets, TLC

VARIABLES
    args,   \* the arguments of the bmgs_relax call in progress
    rx,     \* bmgs_relax's locals: the buffers, its pointers, loop counters
    host,   \* the host thread inside a relax/apply entry point of an operator
    ops,    \* the operations issued so far, in issue order, with their state
    event,  \* operator_event[0..1]: the record operation each last captured
    dev,    \* the process-wide scratch buffer, its size, streams and counts
    px      \* the fields and working buffer of a device relax/apply in progress

relaxVars == <<args, rx>>

opVars == <<host, ops, event>>

\* the state outside bmgs_relax and outside the scheduling of one call
others == <<dev, px>>

vars == <<args, rx, host, ops, event, dev, px>>

\* no device relax/apply in progress
IdlePx == [pc |-> "idle"]

-----------------------------------------------------------------------------
(* Bounds of the model *)

\* largest interior extent of the innermost axis
MaxN2 == 4

\* largest number of relaxation sweeps of a call
MaxRelax == 2

\* largest number of fields of an apply call
MaxNin == 3

\* calls of the buffer management followed
MaxCalls == 5

\* most localized-function volumes and most boundary points of a grid loop
MaxW == 2

MaxB == 4

-----------------------------------------------------------------------------
(* Exact arithmetic on doubles that are small dyadic rationals *)

Abs(x) == IF x < 0 THEN -x ELSE x

Min(x, y) == IF x < y THEN x ELSE y

Max(x, y) == IF x > y THEN x ELSE y

RECURSIVE GCD(_, _)
GCD(x, y) == IF y = 0 THEN x ELSE GCD(y, x % y)

\* the double with value n/d, d # 0
Rat(n, d) ==
    LET g == GCD(Abs(n), Abs(d))
        sg == IF d < 0 THEN -1 ELSE 1
    IN  <<(sg * n) \div g, (sg * d) \div g>>

R(n) == <<n, 1>>

RAdd(x, y) == Rat(x[1] * y[2] + y[1] * x[2], x[2] * y[2])

RSub(x, y) == Rat(x[1] * y[2] - y[1] * x[2], x[2] * y[2])

RMul(x, y) == Rat(x[1] * y[1], x[2] * y[2])

\* x / y, y # 0 (a zero divisor is outside the caller's contract)
RDiv(x, y) == Rat(x[1] * y[2], x[2] * y[1])

\* a C array from a sequence: index 0 .. Len - 1
Arr(q) == [k \in 0 .. Len(q) - 1 |-> q[k + 1]]

-----------------------------------------------------------------------------
(* The process-wide scratch buffer, streams and events of gpu/operators.c *)

\* The statics as initialized, with the history the properties refer to:
\* live: the device allocations not yet freed; nmalloc: gpuMalloc calls so
\* far (an allocation is named by the number of the call that made it);
\* streams_live: the streams and events exist; ninit, ndealloc, forced: the
\* calls of operator_init_cuda and operator_dealloc_cuda so far; excess:
\* there have been more deallocs than inits at some point; nreg: the
\* operator objects that exist, each registered by its operator_init_cuda
\* and deregistered by its operator_dealloc_cuda; maxreq: the
\* largest size requested since the last release;
\* refreed: gpuFree has been handed a pointer that was already freed;
\* recreated: streams were created while the earlier ones were live;
\* redestroyed: streams were destroyed that were not live;
\* failed: a device call has failed (the Python error is set); diag: diagnostic lines printed; calls:
\* calls so far; last: the last call, its request and whether it released.
IdleDev ==
    [operator_buf_gpu |-> 0, operator_buf_size |-> 0,
     operator_init_count |-> 0, operator_streams |-> 0,
     live |-> {}, nmalloc |-> 0, streams_live |-> FALSE,
     ninit |-> 0, ndealloc |-> 0, forced |-> FALSE, excess |-> FALSE,
     nreg |-> 0, maxreq |-> 0, refreed |-> FALSE, recreated |-> FALSE, redestroyed |-> FALSE,
     failed |-> FALSE, diag |-> 0, calls |-> 0,
     last |-> [call |-> "none", ng2 |-> 0, released |-> FALSE]]

\* OPERATOR_NSTREAMS
OPERATOR_NSTREAMS == 2

\* what gpuMalloc may do: succeed, or fail leaving the pointer as it was or
\* null
MallocOutcomes == {"ok", "keep", "null"}

\* operator_init_cuda: operator_init_count++
InitCuda(d) ==
    [d EXCEPT !.operator_init_count = @ + 1, !.ninit = @ + 1, !.calls = @ + 1,
              !.nreg = @ + 1,
              !.last = [call |-> "init", ng2 |-> 0, released |-> FALSE]]

\* the test of operator_alloc_buffers with >= for >
Grows_OrEqual(ng2, size) == ng2 >= size

\* ng2 > operator_buf_size
Grows(ng2, size) == ng2 > size

\* the device-call helper, were it to do nothing on an error
SafeCall_Silent(d, ok) == d

\* the device-call helper on the status of a call: on an error it formats a
\* message, sets the Python RuntimeError and prints the message; it returns
\* the status to a caller that ignores it
SafeCall(d, ok) ==
    IF ok THEN d ELSE [d EXCEPT !.failed = TRUE, !.diag = @ + 1]

\* gpuFree(p): a null pointer is left alone
GpuFree(d, p) ==
    [d EXCEPT !.live = @ \ {p}, !.refreed = @ \/ (p # 0 /\ p \notin d.live)]

\* operator_alloc_buffers for a request of ng2 doubles
AllocBuffers(d, ng2, outcome) ==
    LET grown ==
            IF Grows(ng2, d.operator_buf_size)
            THEN LET freed == GpuFree(d, d.operator_buf_gpu)
                     got == SafeCall([freed EXCEPT !.nmalloc = @ + 1], outcome = "ok")
                 IN  [got EXCEPT
                        !.operator_buf_gpu =
                            IF outcome = "ok" THEN got.nmalloc
                            ELSE IF outcome = "keep" THEN @ ELSE 0,
                        !.live = IF outcome = "ok" THEN @ \cup {got.nmalloc} ELSE @,
                        !.operator_buf_size = ng2]
            ELSE d
        streams ==
            IF grown.operator_streams = 0
            THEN [grown EXCEPT !.streams_live = TRUE,
                               !.recreated = @ \/ grown.streams_live,
                               !.operator_streams = OPERATOR_NSTREAMS]
            ELSE grown
    IN  [streams EXCEPT !.maxreq = IF ng2 > @ THEN ng2 ELSE @, !.calls = @ + 1,
                        !.last = [call |-> "alloc", ng2 |-> ng2, released |-> FALSE]]

\* ng2 of operator_alloc_buffers
Ng2(ndouble, size2, blocks) == (ndouble * size2[1] * size2[2] * size2[3]) * blocks

\* bc->size2 of the operator of the relax and apply calls followed
CallSize2 == <<1, 1, 2>>

\* operator_init_buffers_cuda
InitBuffersCuda(d) ==
    [d EXCEPT !.operator_buf_gpu = 0, !.operator_buf_size = 0,
              !.operator_init_count = 0, !.operator_streams = 0]

\* the release test of operator_dealloc_cuda, were it operator_init_count >= 1
LastReference_AtLeastOne(count) == count >= 1

\* operator_init_count == 1
LastReference(count) == count = 1

\* operator_dealloc_cuda(force)
DeallocCuda(d, force) ==
    LET f == IF force # 0 THEN [d EXCEPT !.operator_init_count = 1] ELSE d
        h == [f EXCEPT !.ndealloc = @ + 1, !.calls = @ + 1,
                       !.nreg = IF @ > 0 THEN @ - 1 ELSE @,
                       !.forced = @ \/ force # 0,
                       !.excess = @ \/ d.ndealloc + 1 > d.ninit]
    IN  IF LastReference(h.operator_init_count)
        THEN [InitBuffersCuda(GpuFree(h, h.operator_buf_gpu)) EXCEPT
                !.streams_live = IF h.operator_streams # 0 THEN FALSE ELSE @,
                !.redestroyed = @ \/ (h.operator_streams # 0 /\ ~h.streams_live),
                !.maxreq = 0,
                !.last = [call |-> "dealloc", ng2 |-> 0, released |-> TRUE]]
        ELSE [h EXCEPT !.operator_init_count = IF @ > 0 THEN @ - 1 ELSE @,
                       !.last = [call |-> "dealloc", ng2 |-> 0, released |-> FALSE]]

-----------------------------------------------------------------------------
(* bmgsstencil descriptors handed to bmgs_relax *)

\* padded extent of axis i for interior n and halo width h on each side
Size2(n, h) == [i \in 0 .. 2 |-> n[i] + 2 * h[i]]

\* A descriptor for interior extent n, halo widths h (0 or 1 per axis) and
\* coefficients <<centre, low neighbour, high neighbour>>: the neighbours of
\* every axis that carries a halo, at the strides of the padded buffer.
Stencil(n, h, cf) ==
    LET sz == Size2(n, h)
        st == [i \in 0 .. 2 |->
                 IF i = 0 THEN sz[1] * sz[2] ELSE IF i = 1 THEN sz[2] ELSE 1]
        ax == SelectSeq(<<0, 1, 2>>, LAMBDA i : h[i] = 1)
        neigh == [k \in 1 .. 2 * Len(ax) |->
                    LET i == ax[(k + 1) \div 2]
                    IN  IF k % 2 = 1 THEN <<-st[i], cf[2]>>
                                     ELSE <<st[i], cf[3]>>]
    IN  [ncoefs  |-> 1 + 2 * Len(ax),
         coefs   |-> Arr(<<R(cf[1])>> \o [k \in 1 .. 2 * Len(ax) |-> R(neigh[k][2])]),
         offsets |-> Arr(<<0>> \o [k \in 1 .. 2 * Len(ax) |-> neigh[k][1]]),
         n       |-> n,
         j       |-> [i \in 0 .. 2 |-> 2 * h[i] * st[i]]]

Extents == {Arr(<<n0, n1, n2>>) : n0 \in {1, 2}, n1 \in {1, 2},
                                   n2 \in 1 .. MaxN2}

Halos == {Arr(<<0, 0, 1>>), Arr(<<0, 1, 1>>), Arr(<<1, 1, 1>>)}

CoefSets == {<<2, -1, -1>>, <<4, 1, -2>>}

Stencils == {Stencil(n, h, cf) : n \in Extents, h \in Halos, cf \in CoefSets}

\* number of doubles of the padded working buffer of stencil s
BufLen(s) ==
    LET row == s.n[2] + s.j[2]
        slab == s.n[1] * row + s.j[1]
    IN  s.n[0] * slab + s.j[0]

\* number of interior points
NPoints(s) == s.n[0] * s.n[1] * s.n[2]

\* contents of the buffers before the call
Zeros(len) == [k \in 0 .. len - 1 |-> R(0)]

Ones(len) == [k \in 0 .. len - 1 |-> R(1)]

Ramp(len) == [k \in 0 .. len - 1 |-> R((k % 3) - 1)]

Stripes(len) == [k \in 0 .. len - 1 |-> R(k % 2)]

\* the working buffer, result field and source a caller passes for stencil s
Data(s) ==
    {[a |-> Zeros(BufLen(s)), b |-> Zeros(NPoints(s)), src |-> Ones(NPoints(s))],
     [a |-> Ramp(BufLen(s)), b |-> Zeros(NPoints(s)), src |-> Ones(NPoints(s))],
     [a |-> Ramp(BufLen(s)), b |-> Ramp(NPoints(s)), src |-> Stripes(NPoints(s))]}

Weights == {R(0), Rat(1, 2), R(1)}

Methods == {0, 1, 2}

\* Lanes the "omp simd" inner loop runs in lockstep: 1 when the pragma is
\* ignored or not exploited by the build.
SimdWidths == {1, 2, 4}

-----------------------------------------------------------------------------
(* bmgs_relax *)

\* x of the inner loop body for iteration i2: the stencil sum over the
\* neighbours, read from the working buffer a at pointer ap
StencilSum(s, a, ap, i2) ==
    LET RECURSIVE acc(_)
        acc(c) == IF c = 0 THEN R(0)
                  ELSE RAdd(acc(c - 1), RMul(a[ap + s.offsets[c] + i2], s.coefs[c]))
    IN  acc(s.ncoefs - 1)

\* Gauss-Seidel: x = (src[i2] - x) * coef with coef = 1.0 / coefs[0]
GaussSeidelValue(s, a, ap, src, srcp, i2) ==
    RMul(RSub(src[srcp + i2], StencilSum(s, a, ap, i2)), RDiv(R(1), s.coefs[0]))

\* the Jacobi update with the two weights exchanged
JacobiValue_Swapped(s, a, ap, b, bp, src, srcp, w, i2) ==
    RAdd(RMul(w, b[bp + i2]),
         RDiv(RMul(RSub(R(1), w), RSub(src[srcp + i2], StencilSum(s, a, ap, i2))),
              s.coefs[0]))

\* Jacobi: (1.0 - w) * b[i2] + w * (src[i2] - x) / coefs[0]
JacobiValue(s, a, ap, b, bp, src, srcp, w, i2) ==
    RAdd(RMul(RSub(R(1), w), b[bp + i2]),
         RDiv(RMul(w, RSub(src[srcp + i2], StencilSum(s, a, ap, i2))), s.coefs[0]))

\* the pointers and counters at entry: a += (j[0] + j[1] + j[2]) / 2
RelaxEntry(a, b) ==
    [a |-> a, b |-> b, ap |-> 0, bp |-> 0, srcp |-> 0,
     i0 |-> 0, i1 |-> 0, i2 |-> 0, pc |-> "entry"]

\* the entry, were the working-buffer pointer left at the start of the buffer
RelaxStart_AtOrigin(g, r) == [r EXCEPT !.pc = "loop"]

RelaxStart(g, r) ==
    [r EXCEPT !.ap = (g.s.j[0] + g.s.j[1] + g.s.j[2]) \div 2, !.pc = "loop"]

\* iterations of the inner loop executed together: one, or a SIMD chunk
Lanes(g, r) == r.i2 .. (r.i2 + Min(g.simdlen, g.s.n[2] - r.i2) - 1)

\* a sweep that leaves the working buffer alone in both branches
WriteA_Never(g, r, lanes) == r.a

\* a sweep that stores the new value in the working buffer in both branches
WriteA_Always(g, r, lanes) ==
    [k \in DOMAIN r.a |->
        IF k - r.ap \in lanes
        THEN IF g.relax_method = 1
             THEN GaussSeidelValue(g.s, r.a, r.ap, g.src, r.srcp, k - r.ap)
             ELSE JacobiValue(g.s, r.a, r.ap, r.b, r.bp, g.src, r.srcp, g.w, k - r.ap)
        ELSE r.a[k]]

\* The buffers after the inner-loop iterations lanes, all of which read
\* before any of them writes.
WriteA(g, r, lanes) ==
    IF g.relax_method = 1
    THEN [k \in DOMAIN r.a |->
            IF k - r.ap \in lanes
            THEN GaussSeidelValue(g.s, r.a, r.ap, g.src, r.srcp, k - r.ap)
            ELSE r.a[k]]
    ELSE r.a

\* the result field, were the Gauss-Seidel branch to blend with the weight
\* as the Jacobi branch does
WriteB_Blended(g, r, lanes) ==
    [k \in DOMAIN r.b |->
        IF k - r.bp \in lanes
        THEN JacobiValue(g.s, r.a, r.ap, r.b, r.bp, g.src, r.srcp, g.w, k - r.bp)
        ELSE r.b[k]]

WriteB(g, r, lanes) ==
    [k \in DOMAIN r.b |->
        IF k - r.bp \in lanes
        THEN IF g.relax_method = 1
             THEN GaussSeidelValue(g.s, r.a, r.ap, g.src, r.srcp, k - r.bp)
             ELSE JacobiValue(g.s, r.a, r.ap, r.b, r.bp, g.src, r.srcp, g.w, k - r.bp)
        ELSE r.b[k]]

\* the loop increments that follow the inner-loop iterations lanes
Advance(g, r, lanes) ==
    LET s == g.s
        n2 == r.i2 + Cardinality(lanes)
        rowEnd == n2 >= s.n[2]
        slabEnd == rowEnd /\ r.i1 + 1 >= s.n[1]
    IN  [r EXCEPT
           !.i2 = IF rowEnd THEN 0 ELSE n2,
           !.i1 = IF slabEnd THEN 0 ELSE IF rowEnd THEN r.i1 + 1 ELSE r.i1,
           !.i0 = IF slabEnd THEN r.i0 + 1 ELSE r.i0,
           !.srcp = IF rowEnd THEN r.srcp + s.n[2] ELSE r.srcp,
           !.bp = IF rowEnd THEN r.bp + s.n[2] ELSE r.bp,
           !.ap = IF slabEnd THEN r.ap + s.j[2] + s.n[2] + s.j[1]
                  ELSE IF rowEnd THEN r.ap + s.j[2] + s.n[2] ELSE r.ap,
           !.pc = IF slabEnd /\ r.i0 + 1 >= s.n[0] THEN "done" ELSE "loop"]

\* one step of the loop nest
RelaxBody(g, r) ==
    LET lanes == Lanes(g, r)
        w == [r EXCEPT !.a = WriteA(g, r, lanes), !.b = WriteB(g, r, lanes)]
    IN  Advance(g, w, lanes)

\* the whole call
RECURSIVE RelaxRun(_, _)
RelaxRun(g, r) ==
    IF r.pc = "done" THEN r
    ELSE IF r.pc = "entry" THEN RelaxRun(g, RelaxStart(g, r))
    ELSE RelaxRun(g, RelaxBody(g, r))

bmgs_relax(g) == RelaxRun(g, RelaxEntry(g.a, g.b))

-----------------------------------------------------------------------------
(* Boundary conditions and the overlap decision *)

GPAW_BOUNDARY_NORMAL == 1
GPAW_BOUNDARY_SKIP == 2
GPAW_BOUNDARY_ONLY == 4
GPAW_BOUNDARY_X0 == 8
GPAW_BOUNDARY_X1 == 16
GPAW_BOUNDARY_Y0 == 32
GPAW_BOUNDARY_Y1 == 64
GPAW_BOUNDARY_Z0 == 128
GPAW_BOUNDARY_Z1 == 256

\* the amortization floor of the overlap, in bytes (the ASYNC_SIZE of the
\* device headers)
GPU_OVERLAP_SIZE == 8 * 1024

SizeofDouble == 8

\* bc->sendproc[i][d] of a side with no neighbour
DO_NOTHING == 0 - 3

\* The 32-bit int nsendrecvs holds a multiple of sizeof(double) bytes; as a
\* count x of doubles it is x modulo 2^29, taken in [-2^28, 2^28).
IntDoubles(x) == ((x + 268435456) % 536870912) - 268435456

\* flag is one of the bits of mask
BitSet(mask, flag) == (mask \div flag) % 2 = 1

\* mask | flag for a single-bit flag
BitOr(mask, flag) == IF BitSet(mask, flag) THEN mask ELSE mask + flag

\* x & y on non-negative ints
RECURSIVE BitAnd(_, _)
BitAnd(x, y) ==
    IF x = 0 \/ y = 0 THEN 0
    ELSE (x % 2) * (y % 2) + 2 * BitAnd(x \div 2, y \div 2)

Sides == (0 .. 2) \X (0 .. 1)

\* boundary conditions whose sides in active have a neighbour, to which ns
\* doubles are sent and from which nr are received
Bc(active, ns, nr) ==
    [sendproc |-> [i \in 0 .. 2 |-> [d \in 0 .. 1 |->
                     IF <<i, d>> \in active THEN 0 ELSE DO_NOTHING]],
     nsend |-> [i \in 0 .. 2 |-> [d \in 0 .. 1 |->
                     IF <<i, d>> \in active THEN ns ELSE 0]],
     nrecv |-> [i \in 0 .. 2 |-> [d \in 0 .. 1 |->
                     IF <<i, d>> \in active THEN nr ELSE 0]]]

BoundaryConditions ==
    {Bc({}, 0, 0),
     Bc((0 .. 1) \X (0 .. 1), 256, 256),
     Bc({2} \X (0 .. 1), 300, 512),
     Bc(Sides, 171, 170),
     Bc(Sides, 466034, 466034)}

\* the flag of side (i, d), were the direction left out of the choice
SideFlag_PerAxis(i, d) ==
    IF i = 0 THEN GPAW_BOUNDARY_X0
    ELSE IF i = 1 THEN GPAW_BOUNDARY_Y0
    ELSE GPAW_BOUNDARY_Z0

\* the flag of side (i, d)
SideFlag(i, d) ==
    IF i = 0 THEN (IF d = 0 THEN GPAW_BOUNDARY_X0 ELSE GPAW_BOUNDARY_X1)
    ELSE IF i = 1 THEN (IF d = 0 THEN GPAW_BOUNDARY_Y0 ELSE GPAW_BOUNDARY_Y1)
    ELSE (IF d = 0 THEN GPAW_BOUNDARY_Z0 ELSE GPAW_BOUNDARY_Z1)

\* int boundary = 0; if (bc->sendproc[i][d] != DO_NOTHING) boundary |= flag
BoundaryMask(bc) ==
    LET RECURSIVE upto(_)
        upto(k) ==
            IF k = 0 THEN 0
            ELSE LET i == (k - 1) \div 2
                     d == (k - 1) % 2
                 IN  IF bc.sendproc[i][d] # DO_NOTHING
                     THEN BitOr(upto(k - 1), SideFlag(i, d))
                     ELSE upto(k - 1)
    IN  upto(6)

\* int nsendrecvs = 0;
\* nsendrecvs += MAX(nsend[i][j], nrecv[i][j]) * blocks * sizeof(double)
\* The value in bytes, accumulated as a count of doubles.
NSendRecvs(bc, blocks) ==
    LET RECURSIVE upto(_)
        upto(k) ==
            IF k = 0 THEN 0
            ELSE LET i == (k - 1) \div 2
                     j == (k - 1) % 2
                 IN  IntDoubles(upto(k - 1)
                                + Max(bc.nsend[i][j], bc.nrecv[i][j]) * blocks)
    IN  SizeofDouble * upto(6)

\* (nsendrecvs > GPU_OVERLAP_SIZE)
ExceedsThreshold(nsendrecvs) == IF nsendrecvs > GPU_OVERLAP_SIZE THEN 1 ELSE 0

\* Results of bmgs_fd_boundary_test(&stencil_gpu, boundary, ndouble): 1 when
\* the stencil leaves grid points that are not boundary-adjacent, else 0.
BoundaryTests == {0, 1}

\* cuda_overlap = test; cuda_overlap &= (nsendrecvs > GPU_OVERLAP_SIZE)
CudaOverlap(test, bc, blocks) ==
    BitAnd(test, ExceedsThreshold(NSendRecvs(bc, blocks)))

-----------------------------------------------------------------------------
(* Streams, events and the operations issued to them *)

\* "host": done by the host thread itself; "null": the default stream 0;
\* "s0", "s1": operator_stream[0] and operator_stream[1]
Streams == {"host", "null", "s0", "s1"}

IsMarker(o) == o.kind \in {"wait", "record"}

IsCompute(o) == o.kind \in {"relax", "fd"}

\* an operation issued by host h
Op(kind, stream, h, axis, mode, dep, st) ==
    [kind |-> kind, stream |-> stream, n |-> h.n, nb |-> h.myblocks,
     axis |-> axis, mode |-> mode, dep |-> dep, st |-> st]

\* Operation k may begin: the stream runs its operations in issue order, a
\* wait holds its stream until the record it captured has completed, and
\* with the legacy default stream an operation of stream 0 follows every
\* operation issued before it and precedes every operation issued after it.
Startable(k) ==
    /\ \A m \in 1 .. k - 1 : ops[m].stream = ops[k].stream => ops[m].st = "done"
    /\ (ops[k].kind = "wait" /\ ops[k].dep # 0) => ops[ops[k].dep].st = "done"
    /\ host.legacy =>
         \A m \in 1 .. k - 1 :
            (ops[k].stream = "null" \/ ops[m].stream = "null") => ops[m].st = "done"

\* gpuStreamSynchronize(stream) returns: the operations issued to the
\* stream have completed
Synchronized(stream) ==
    \A k \in 1 .. Len(ops) : ops[k].stream = stream => ops[k].st = "done"

\* an event record or a stream wait takes effect
Marker ==
    \E k \in 1 .. Len(ops) :
        /\ IsMarker(ops[k]) /\ ops[k].st = "pending" /\ Startable(k)
        /\ ops' = [ops EXCEPT ![k].st = "done"]
        /\ UNCHANGED <<others, args, rx, host, event>>

\* a kernel or an exchange begins on the device
Start ==
    \E k \in 1 .. Len(ops) :
        /\ ~IsMarker(ops[k]) /\ ops[k].st = "pending" /\ Startable(k)
        /\ ops' = [ops EXCEPT ![k].st = "running"]
        /\ UNCHANGED <<others, args, rx, host, event>>

\* a kernel or an exchange completes
Finish ==
    \E k \in 1 .. Len(ops) :
        /\ ops[k].st = "running"
        /\ ops' = [ops EXCEPT ![k].st = "done"]
        /\ UNCHANGED <<others, args, rx, host, event>>

-----------------------------------------------------------------------------
(* The host thread in the relax and apply entry points *)

HostFns == {"Operator_relax_cuda_cpu", "debug_operator_relax",
            "apply_worker_cuda_cpu", "debug_operator_apply"}

GpuFns == {"_operator_relax_cuda_gpu", "_operator_apply_cuda_gpu"}

IsRelax(fn) == fn \in {"Operator_relax_cuda_cpu", "debug_operator_relax",
                       "_operator_relax_cuda_gpu"}

ComputeKind(fn) == IF IsRelax(fn) THEN "relax" ELSE "fd"

\* the axis the loop "for (int i = 0; i < 3; i++)" hands to the exchange,
\* with the axes taken in descending order
AxisArg_Reversed(i) == 2 - i

\* the axis the loop "for (int i = 0; i < 3; i++)" hands to the exchange
AxisArg(i) == i

\* the event the paste would wait for, were it operator_event[0]
PasteWaitsFor_Event0(ev) == ev[0]

\* the event the paste of a sweep waits for: operator_event[1]
PasteWaitsFor(ev) == ev[1]

\* the exchange, were its stream to wait for no event
ExchangeWaitsFor_Nothing(ev) == 0

\* the event the exchange of a sweep waits for: operator_event[0]
ExchangeWaitsFor(ev) == ev[0]

\* the first pass of the fallback path, were it the one of the overlapped path
FallbackEntry_Overlapped == "o_wait0"

\* where the loop body starts without overlap: the else branch
FallbackEntry == "f_paste"

\* the largest batch of real fields: GPU_BLOCKS_MAX
GPU_BLOCKS_MAX == 96

\* the smallest batch per rank: GPU_BLOCKS_MIN
GPU_BLOCKS_MIN == 16

\* the block count of Operator_apply_cuda_gpu without the floor of 1
ApplyBlocks_NoFloor(nin, mpi_size, ndouble) ==
    Min(nin, Min(GPU_BLOCKS_MIN * mpi_size, GPU_BLOCKS_MAX \div ndouble))

\* MAX(1, MIN(nin, MIN(GPU_BLOCKS_MIN * mpi_size, GPU_BLOCKS_MAX / bc->ndouble)))
ApplyBlocks(nin, mpi_size, ndouble) ==
    Max(1, Min(nin, Min(GPU_BLOCKS_MIN * mpi_size, GPU_BLOCKS_MAX \div ndouble)))

\* the numbers of fields, the communicator sizes and the field types of the
\* calls of Operator_apply_cuda_gpu followed
WrapperNins == {-1, 0, 1, GPU_BLOCKS_MIN + 1, GPU_BLOCKS_MAX \div 2 + MaxNin}

MpiSizes == {1, 4}

\* the numbers of fields of an apply call
Nins == (0 .. MaxNin) \cup {GPU_BLOCKS_MAX}

\* the batch sizes of an apply call of nin fields
Blocks(nin) == {b \in 1 .. Max(1, nin) : nin <= MaxNin \/ b = nin}

\* the stream of the boundary-only pass, were it operator_stream[0]
BoundaryPassStream_Zero == "s0"

\* the stream of the boundary-only pass: operator_stream[1]
BoundaryPassStream == "s1"

\* The loop head of the sweep or batch loop: the test n < limit and, for a
\* batch, the number of fields it takes.
LoopHead(h) ==
    IF h.n < h.limit
    THEN LET cs == IF /\ h.fn = "apply_worker_cuda_cpu"
                      /\ h.n + h.step >= h.limit
                      /\ h.step > 1
                   THEN h.limit - h.n ELSE h.step
             mb == IF IsRelax(h.fn) THEN 1
                   ELSE IF h.fn = "apply_worker_cuda_cpu" THEN cs
                   ELSE Min(h.blocks, h.nin - h.n)
         IN  [h EXCEPT !.step = cs, !.myblocks = mb, !.i = 0,
                       !.pc = IF h.fn \in HostFns THEN "h_unpack1"
                              ELSE IF h.cuda_overlap # 0 THEN "o_wait0"
                              ELSE FallbackEntry]
    ELSE [h EXCEPT !.pc = IF h.fn \in GpuFns /\ h.cuda_overlap # 0
                          THEN "e_wait" ELSE "returned"]

\* the end of the loop body: n++ or n += blocks or n += chunksize
BodyEnd(h) == LoopHead([h EXCEPT !.n = h.n + h.step])

HostRec(fn, limit, step, nin, blocks, bc, test, legacy) ==
    [fn |-> fn, pc |-> "call", n |-> 0, i |-> 0, limit |-> limit, step |-> step,
     nin |-> nin, blocks |-> blocks, myblocks |-> 1, bc |-> bc, test |-> test,
     boundary |-> BoundaryMask(bc),
     cuda_overlap |-> IF fn \in GpuFns THEN CudaOverlap(test, bc, blocks) ELSE 0,
     legacy |-> legacy, thread_id |-> 0, nthds |-> 1, wrapper |-> FALSE]

Issue(o) == ops' = Append(ops, o)

\* the host thread outside the relax and apply entry points
IdleHost == [HostRec("none", 0, 1, 0, 1, Bc({}, 0, 0), 0, TRUE) EXCEPT !.pc = "idle"]

\* bc->maxsend, bc->maxrecv: the most doubles of one field that the exchange
\* of an axis sends, receives
MaxSend(bc) ==
    Max(bc.nsend[0][0] + bc.nsend[0][1],
        Max(bc.nsend[1][0] + bc.nsend[1][1], bc.nsend[2][0] + bc.nsend[2][1]))

MaxRecv(bc) ==
    Max(bc.nrecv[0][0] + bc.nrecv[0][1],
        Max(bc.nrecv[1][0] + bc.nrecv[1][1], bc.nrecv[2][0] + bc.nrecv[2][1]))

\* the boundary conditions of the operators of the apply workers
WorkerBcs == {Bc({}, 0, 0), Bc(Sides, 1, 2)}

\* the start of a worker's region, were the configured chunk size left out
RegionStart_PerField(thread_id, unit, chunksize) == thread_id * unit

\* the start of a worker's region in a scratch buffer whose unit is the
\* doubles of one field: thread_id * unit * args->chunksize
RegionStart(thread_id, unit, chunksize) == thread_id * unit * chunksize

\* the doubles of a scratch buffer that worker h uses in the round it is in:
\* those of its myblocks fields, from the start of its region
WorkerRegion(h, unit) ==
    {RegionStart(h.thread_id, unit, h.blocks) + x : x \in 0 .. unit * h.myblocks - 1}

\* apply_worker_cuda_cpu up to its loop: chunksize = nin / nthds, at least 1;
\* nstart = thread_id * chunksize, return if nstart >= nin; nend the smaller
\* of nstart + chunksize and nin; chunks of at most args->chunksize
WorkerEntry(nin, nthds, chunk, bc, thread_id) ==
    LET c0 == IF nin \div nthds = 0 THEN 1 ELSE nin \div nthds
        nstart == thread_id * c0
        nend == Min(nstart + c0, nin)
        cs == Min(c0, chunk)
        h == [HostRec("apply_worker_cuda_cpu", nend, cs, nin, chunk, bc, 0, TRUE)
                EXCEPT !.thread_id = thread_id, !.nthds = nthds]
    IN  IF nstart >= nin THEN [h EXCEPT !.pc = "returned"]
        ELSE LoopHead([h EXCEPT !.n = nstart])

\* Operator_relax_cuda_cpu and debug_operator_relax: nrelax sweeps
CallRelaxHost ==
    /\ host.pc = "idle"
    /\ \E fn \in {"Operator_relax_cuda_cpu", "debug_operator_relax"},
          nrelax \in -1 .. MaxRelax :
         host' = LoopHead(HostRec(fn, nrelax, 1, 1, 1, Bc({}, 0, 0), 0, TRUE))
    /\ UNCHANGED <<others, args, rx, ops, event>>

\* debug_operator_apply: batches of blocks fields
CallDebugApply ==
    /\ host.pc = "idle"
    /\ \E nin \in 0 .. MaxNin :
         \E blocks \in 1 .. Max(1, nin) :
            host' = LoopHead(HostRec("debug_operator_apply", nin, blocks, nin,
                                     blocks, Bc({}, 0, 0), 0, TRUE))
    /\ UNCHANGED <<others, args, rx, ops, event>>

\* apply_worker_cuda_cpu: the range [nstart, nend) of worker thread_id, in
\* chunks of at most the configured chunk size
CallApplyWorker ==
    /\ host.pc = "idle"
    /\ \E nin \in 1 .. MaxNin + 1, nthds \in 1 .. 2, chunk \in 1 .. 2,
          bc \in WorkerBcs :
         \E thread_id \in 0 .. nthds - 1 :
            host' = WorkerEntry(nin, nthds, chunk, bc, thread_id)
    /\ UNCHANGED <<others, args, rx, ops, event>>

\* Operator_apply_cuda_cpu: the chunk size and the thread count from the
\* environment, the arguments of every worker filled in, then the one call
\* apply_worker_cuda_cpu(wargs), which is that of worker 0
CallApplyCpu ==
    /\ host.pc = "idle"
    /\ \E nin \in 1 .. MaxNin + 1, nthds \in 1 .. 2, chunk \in 1 .. 2,
          bc \in WorkerBcs :
         host' = [WorkerEntry(nin, nthds, chunk, bc, 0) EXCEPT !.wrapper = TRUE]
    /\ UNCHANGED <<others, args, rx, ops, event>>

\* bc_unpack1(bc, ..., i, ...): pack the planes of axis i and issue the
\* receives and sends (and, for axis 0, paste the owned data)
HostUnpack1 ==
    /\ host.pc = "h_unpack1"
    /\ Issue(Op("unpack1", "host", host, AxisArg(host.i), 0, 0, "done"))
    /\ host' = [host EXCEPT !.pc = "h_unpack2"]
    /\ UNCHANGED <<others, args, rx, event>>

\* bc_unpack2(bc, ..., i, ...): wait for the receives of axis i and unpack
HostUnpack2 ==
    /\ host.pc = "h_unpack2"
    /\ Issue(Op("unpack2", "host", host, AxisArg(host.i), 0, 0, "done"))
    /\ host' = [host EXCEPT !.i = host.i + 1,
                            !.pc = IF host.i + 1 < 3 THEN "h_unpack1" ELSE "h_compute"]
    /\ UNCHANGED <<others, args, rx, event>>

\* bmgs_relax, or bmgs_fd for each field m of the batch
HostCompute ==
    /\ host.pc = "h_compute"
    /\ Issue(Op(ComputeKind(host.fn), "host", host, -1, GPAW_BOUNDARY_NORMAL, 0, "done"))
    /\ host' = BodyEnd(host)
    /\ UNCHANGED <<others, args, rx, event>>

\* _operator_relax_cuda_gpu up to its loop: the overlap decision and, when
\* overlapping, gpuEventRecord(operator_event[1], 0)
CallRelaxGpu ==
    /\ host.pc = "idle"
    /\ \E nrelax \in -1 .. MaxRelax, bc \in BoundaryConditions,
          test \in BoundaryTests, legacy \in BOOLEAN :
         LET h == HostRec("_operator_relax_cuda_gpu", nrelax, 1, 1, 1, bc, test, legacy)
         IN  /\ host' = LoopHead(h)
             /\ IF h.cuda_overlap # 0
                THEN /\ Issue(Op("record", "null", h, -1, 0, 0, "pending"))
                     /\ event' = [event EXCEPT ![1] = Len(ops) + 1]
                ELSE UNCHANGED <<ops, event>>
             /\ \E outcome \in MallocOutcomes :
                  dev' = AllocBuffers(dev, Ng2(1, CallSize2, h.blocks), outcome)
    /\ UNCHANGED <<px, args, rx>>

\* _operator_apply_cuda_gpu up to its loop
CallApplyGpu ==
    /\ host.pc = "idle"
    /\ \E nin \in Nins, bc \in BoundaryConditions,
          test \in BoundaryTests, legacy \in BOOLEAN :
         \E blocks \in Blocks(nin) :
            LET h == HostRec("_operator_apply_cuda_gpu", nin, blocks, nin, blocks,
                             bc, test, legacy)
            IN  /\ host' = LoopHead(h)
                /\ IF h.cuda_overlap # 0
                   THEN /\ Issue(Op("record", "null", h, -1, 0, 0, "pending"))
                        /\ event' = [event EXCEPT ![1] = Len(ops) + 1]
                   ELSE UNCHANGED <<ops, event>>
                /\ \E outcome \in MallocOutcomes :
                     dev' = AllocBuffers(dev, Ng2(1, CallSize2, h.blocks), outcome)
    /\ UNCHANGED <<px, args, rx>>

\* Operator_apply_cuda_gpu: nin from the shape, the block count from nin, the
\* communicator size and bc->ndouble, then _operator_apply_cuda_gpu up to its
\* loop
CallApplyWrapper ==
    /\ host.pc = "idle"
    /\ \E nin \in WrapperNins, mpi_size \in MpiSizes, ndouble \in 1 .. 2,
          bc \in WorkerBcs \cup {Bc(Sides, 466034, 466034)}, outcome \in MallocOutcomes :
         LET blocks == ApplyBlocks(nin, IF MaxSend(bc) # 0 \/ MaxRecv(bc) # 0
                                        THEN mpi_size ELSE 1, ndouble)
             h == HostRec("_operator_apply_cuda_gpu", nin, blocks, nin, blocks,
                          bc, 1, TRUE)
         IN  /\ host' = LoopHead(h)
             /\ IF h.cuda_overlap # 0
                THEN /\ Issue(Op("record", "null", h, -1, 0, 0, "pending"))
                     /\ event' = [event EXCEPT ![1] = Len(ops) + 1]
                ELSE UNCHANGED <<ops, event>>
             /\ dev' = AllocBuffers(dev, Ng2(ndouble, CallSize2, h.blocks), outcome)
    /\ UNCHANGED <<px, args, rx>>

\* gpuStreamWaitEvent(operator_stream[0], operator_event[1], 0)
OverlapWaitEvent1 ==
    /\ host.pc = "o_wait0"
    /\ Issue(Op("wait", "s0", host, -1, 0, PasteWaitsFor(event), "pending"))
    /\ host' = [host EXCEPT !.pc = "o_paste"]
    /\ UNCHANGED <<others, args, rx, event>>

\* bc_unpack_paste_cuda_gpu(..., operator_stream[0], myblocks)
OverlapPaste ==
    /\ host.pc = "o_paste"
    /\ Issue(Op("paste", "s0", host, -1, 0, 0, "pending"))
    /\ host' = [host EXCEPT !.pc = "o_rec0"]
    /\ UNCHANGED <<others, args, rx, event>>

\* gpuEventRecord(operator_event[0], operator_stream[0])
OverlapRecordEvent0 ==
    /\ host.pc = "o_rec0"
    /\ Issue(Op("record", "s0", host, -1, 0, 0, "pending"))
    /\ event' = [event EXCEPT ![0] = Len(ops) + 1]
    /\ host' = [host EXCEPT !.pc = "o_skip"]
    /\ UNCHANGED <<others, args, rx>>

\* the interior-only pass: boundary|GPAW_BOUNDARY_SKIP on operator_stream[0]
OverlapInterior ==
    /\ host.pc = "o_skip"
    /\ Issue(Op(ComputeKind(host.fn), "s0", host, -1,
                BitOr(host.boundary, GPAW_BOUNDARY_SKIP), 0, "pending"))
    /\ host' = [host EXCEPT !.pc = "o_wait1"]
    /\ UNCHANGED <<others, args, rx, event>>

\* gpuStreamWaitEvent(operator_stream[1], operator_event[0], 0)
OverlapWaitEvent0 ==
    /\ host.pc = "o_wait1"
    /\ Issue(Op("wait", "s1", host, -1, 0, ExchangeWaitsFor(event), "pending"))
    /\ host' = [host EXCEPT !.pc = "o_unpack", !.i = 0]
    /\ UNCHANGED <<others, args, rx, event>>

\* bc_unpack_cuda_gpu_async(..., i, ..., operator_stream[1], myblocks)
OverlapUnpack ==
    /\ host.pc = "o_unpack"
    /\ Issue(Op("unpack", "s1", host, AxisArg(host.i), 0, 0, "pending"))
    /\ host' = [host EXCEPT !.i = host.i + 1,
                            !.pc = IF host.i + 1 < 3 THEN "o_unpack" ELSE "o_only"]
    /\ UNCHANGED <<others, args, rx, event>>

\* the boundary-only pass: boundary|GPAW_BOUNDARY_ONLY on operator_stream[1]
OverlapBoundary ==
    /\ host.pc = "o_only"
    /\ Issue(Op(ComputeKind(host.fn), BoundaryPassStream, host, -1,
                BitOr(host.boundary, GPAW_BOUNDARY_ONLY), 0, "pending"))
    /\ host' = [host EXCEPT !.pc = "o_rec1"]
    /\ UNCHANGED <<others, args, rx, event>>

\* gpuEventRecord(operator_event[1], operator_stream[1]), end of the body
OverlapRecordEvent1 ==
    /\ host.pc = "o_rec1"
    /\ Issue(Op("record", "s1", host, -1, 0, 0, "pending"))
    /\ event' = [event EXCEPT ![1] = Len(ops) + 1]
    /\ host' = BodyEnd(host)
    /\ UNCHANGED <<others, args, rx>>

\* bc_unpack_paste_cuda_gpu(..., 0, myblocks)
FallbackPaste ==
    /\ host.pc = "f_paste"
    /\ Issue(Op("paste", "null", host, -1, 0, 0, "pending"))
    /\ host' = [host EXCEPT !.pc = "f_unpack", !.i = 0]
    /\ UNCHANGED <<others, args, rx, event>>

\* bc_unpack_cuda_gpu(..., i, ..., 0, myblocks): the blocking exchange of
\* axis i, which the host carries out once stream 0 has drained
FallbackUnpack ==
    /\ host.pc = "f_unpack"
    /\ Synchronized("null")
    /\ Issue(Op("unpack", "null", host, AxisArg(host.i), 0, 0, "done"))
    /\ host' = [host EXCEPT !.i = host.i + 1,
                            !.pc = IF host.i + 1 < 3 THEN "f_unpack" ELSE "f_compute"]
    /\ UNCHANGED <<others, args, rx, event>>

\* the full-grid pass: GPAW_BOUNDARY_NORMAL on stream 0, end of the body
FallbackCompute ==
    /\ host.pc = "f_compute"
    /\ Issue(Op(ComputeKind(host.fn), "null", host, -1, GPAW_BOUNDARY_NORMAL, 0,
                "pending"))
    /\ host' = BodyEnd(host)
    /\ UNCHANGED <<others, args, rx, event>>

\* after the loop: gpuStreamWaitEvent(0, operator_event[1], 0)
EndWaitEvent1 ==
    /\ host.pc = "e_wait"
    /\ Issue(Op("wait", "null", host, -1, 0, event[1], "pending"))
    /\ host' = [host EXCEPT !.pc = "e_sync"]
    /\ UNCHANGED <<others, args, rx, event>>

\* gpuStreamSynchronize(operator_stream[0]), then return
EndSynchronize ==
    /\ host.pc = "e_sync"
    /\ Synchronized("s0")
    /\ host' = [host EXCEPT !.pc = "returned"]
    /\ UNCHANGED <<others, args, rx, ops, event>>

InitOps ==
    /\ host = IdleHost
    /\ dev = InitCuda(IdleDev)
    /\ px = IdlePx
    /\ ops = <<>>
    /\ event = [e \in 0 .. 1 |-> 0]
    /\ args = [relax_method |-> 0]
    /\ rx = [pc |-> "idle"]

NextOps ==
    \/ CallRelaxHost \/ CallDebugApply \/ CallApplyWorker \/ CallApplyCpu
    \/ HostUnpack1 \/ HostUnpack2 \/ HostCompute
    \/ CallRelaxGpu \/ CallApplyGpu \/ CallApplyWrapper
    \/ OverlapWaitEvent1 \/ OverlapPaste \/ OverlapRecordEvent0 \/ OverlapInterior
    \/ OverlapWaitEvent0 \/ OverlapUnpack \/ OverlapBoundary \/ OverlapRecordEvent1
    \/ FallbackPaste \/ FallbackUnpack \/ FallbackCompute
    \/ EndWaitEvent1 \/ EndSynchronize
    \/ Marker \/ Start \/ Finish

SpecOps == InitOps /\ [][NextOps]_vars

-----------------------------------------------------------------------------
(* The relaxation as a state machine *)

InitRelax ==
    /\ \E m \in Methods, s \in Stencils, w \in Weights, v \in SimdWidths :
         \E d \in Data(s) :
           args = [relax_method |-> m, s |-> s, a |-> d.a, b |-> d.b,
                   src |-> d.src, w |-> w, simdlen |-> v]
    /\ rx = RelaxEntry(args.a, args.b)
    /\ host = IdleHost
    /\ dev = IdleDev
    /\ px = IdlePx
    /\ ops = <<>>
    /\ event = [e \in 0 .. 1 |-> 0]

Enter ==
    /\ rx.pc = "entry"
    /\ rx' = RelaxStart(args, rx)
    /\ UNCHANGED <<others, args, opVars>>

GaussSeidelStep ==
    /\ rx.pc = "loop"
    /\ args.relax_method = 1
    /\ rx' = RelaxBody(args, rx)
    /\ UNCHANGED <<others, args, opVars>>

JacobiStep ==
    /\ rx.pc = "loop"
    /\ args.relax_method # 1
    /\ rx' = RelaxBody(args, rx)
    /\ UNCHANGED <<others, args, opVars>>

NextRelax == Enter \/ GaussSeidelStep \/ JacobiStep

SpecRelax == InitRelax /\ [][NextRelax]_vars

-----------------------------------------------------------------------------
(* Geometry of the padded buffer, for stating the properties *)

\* the interior points <<k0, k1, k2>> of stencil s
Points(s) == {<<k0, k1, k2>> : k0 \in 0 .. s.n[0] - 1, k1 \in 0 .. s.n[1] - 1,
                               k2 \in 0 .. s.n[2] - 1}

\* row-major index of interior point p in the result and source arrays
Flat(s, p) == (p[1] * s.n[1] + p[2]) * s.n[2] + p[3]

\* row-major index of interior point p in the padded buffer, whose halo
\* margin on each side of axis i is half the padding j[i] counts
CellIndex(s, p) ==
    LET sz2 == s.n[2] + s.j[2]
        h2 == s.j[2] \div 2
        h1 == (s.j[1] \div sz2) \div 2
        sz1 == s.n[1] + 2 * h1
        h0 == (s.j[0] \div (sz1 * sz2)) \div 2
    IN  ((p[1] + h0) * sz1 + (p[2] + h1)) * sz2 + p[3] + h2

\* q comes before p in the scan: axis 0 outer, axis 1 middle, axis 2 inner
Before(q, p) ==
    \/ q[1] < p[1]
    \/ q[1] = p[1] /\ q[2] < p[2]
    \/ q[1] = p[1] /\ q[2] = p[2] /\ q[3] < p[3]

\* the sweep has passed point p
Scanned(r, p) ==
    \/ r.pc = "done"
    \/ r.pc = "loop" /\ Before(p, <<r.i0, r.i1, r.i2>>)

\* sum over c = 1 .. ncoefs - 1 of coefs[c] * val(c)
NeighbourSum(s, val(_)) ==
    LET RECURSIVE sum(_)
        sum(c) == IF c < 1 THEN R(0) ELSE RAdd(sum(c - 1), RMul(s.coefs[c], val(c)))
    IN  sum(s.ncoefs - 1)

\* (src[p] - sum of coefs[c] * abuf[p + offsets[c]]) / coefs[0]
Residual(g, abuf, p) ==
    LET val(c) == abuf[CellIndex(g.s, p) + g.s.offsets[c]]
    IN  RDiv(RSub(g.src[Flat(g.s, p)], NeighbourSum(g.s, val)), g.s.coefs[0])

-----------------------------------------------------------------------------
(* Properties of bmgs_relax *)

\* C1 (step): a Gauss-Seidel step stores, for every point p it handles,
\* x = (src[p] - sum coefs[c] * a[p + offsets[c]]) / coefs[0], computed from
\* the working buffer it read, in both b[p] and the interior cell a[p].
C1_Step ==
    GaussSeidelStep =>
        \A l \in Lanes(args, rx) :
            LET p == <<rx.i0, rx.i1, l>>
            IN  /\ rx'.b[Flat(args.s, p)] = Residual(args, rx.a, p)
                /\ rx'.a[CellIndex(args.s, p)] = Residual(args, rx.a, p)

\* C1 (state): the points are handled in scan order (axis 0 outer, axis 1
\* middle, axis 2 inner, ascending): every point the sweep has passed has
\* b[p] equal to its interior cell a[p], and every other point still has its
\* values from before the sweep.
C1_State ==
    args.relax_method = 1 =>
        \A p \in Points(args.s) :
            IF Scanned(rx, p)
            THEN rx.b[Flat(args.s, p)] = rx.a[CellIndex(args.s, p)]
            ELSE /\ rx.b[Flat(args.s, p)] = args.b[Flat(args.s, p)]
                 /\ rx.a[CellIndex(args.s, p)] = args.a[CellIndex(args.s, p)]

\* C1: Gauss-Seidel computes x from the stencil sum for every interior point
\* in scan order and writes the same x to b[p] and a[p]; after the sweep b[p]
\* equals the interior cell a[p] for every interior point.
C1_GaussSeidelWritesBoth == [][C1_Step]_vars /\ []C1_State

C1_Witness ==
    /\ rx.pc = "done"
    /\ args.relax_method = 1
    /\ NPoints(args.s) >= 4
    /\ rx.b # args.b
    /\ \E p \in Points(args.s) : rx.a[CellIndex(args.s, p)] # args.a[CellIndex(args.s, p)]

\* the value the claim of C2 says the update of p reads for coefficient c
C2_Seen(g, r, p, c) ==
    LET k == CellIndex(g.s, p) + g.s.offsets[c]
        early == {q \in Points(g.s) : CellIndex(g.s, q) = k /\ Before(q, p)}
    IN  IF early # {} THEN r.b[Flat(g.s, CHOOSE q \in early : TRUE)] ELSE g.a[k]

\* C2: in a Gauss-Seidel sweep the update of p reads, for a neighbour that is
\* an interior point scanned earlier, the value written to it in this sweep,
\* and for a neighbour scanned later or in the halo the pre-sweep value.
C2_MixOfOldAndNew ==
    (rx.pc = "done" /\ args.relax_method = 1) =>
        \A p \in Points(args.s) :
            LET val(c) == C2_Seen(args, rx, p, c)
            IN  rx.b[Flat(args.s, p)] =
                    RDiv(RSub(args.src[Flat(args.s, p)], NeighbourSum(args.s, val)),
                         args.s.coefs[0])

\* the canonical scenario: coefficients [2, -1, -1] at offsets [0, -1, +1],
\* n = [1, 1, 4], j = [0, 0, 2], zero working buffer, src = [1, 1, 1, 1]
Canonical(g) ==
    /\ g.relax_method = 1
    /\ g.s = [ncoefs |-> 3,
              coefs |-> Arr(<<R(2), R(-1), R(-1)>>),
              offsets |-> Arr(<<0, -1, 1>>),
              n |-> Arr(<<1, 1, 4>>),
              j |-> Arr(<<0, 0, 2>>)]
    /\ g.a = [k \in 0 .. 5 |-> R(0)]
    /\ g.src = [k \in 0 .. 3 |-> R(1)]

\* C3: one Gauss-Seidel sweep of the canonical scenario yields
\* b = [1/2, 3/4, 7/8, 15/16] and the same values in the interior of a.
C3_GoldenValues ==
    (rx.pc = "done" /\ Canonical(args)) =>
        /\ rx.b = Arr(<<Rat(1, 2), Rat(3, 4), Rat(7, 8), Rat(15, 16)>>)
        /\ rx.a = Arr(<<R(0), Rat(1, 2), Rat(3, 4), Rat(7, 8), Rat(15, 16), R(0)>>)

\* C4: Jacobi sets b[p] = (1 - w) * b_old[p] + w * (src[p] - sum) / coefs[0]
\* from the pre-sweep working buffer for every point it has passed, and never
\* writes to the working buffer a.
C4_JacobiLeavesBuffer ==
    args.relax_method # 1 =>
        /\ rx.a = args.a
        /\ \A p \in Points(args.s) :
             rx.b[Flat(args.s, p)] =
                IF Scanned(rx, p)
                THEN RAdd(RMul(RSub(R(1), args.w), args.b[Flat(args.s, p)]),
                          RMul(args.w, Residual(args, args.a, p)))
                ELSE args.b[Flat(args.s, p)]

C4_Witness ==
    /\ rx.pc = "done"
    /\ args.relax_method # 1
    /\ args.w = Rat(1, 2)
    /\ NPoints(args.s) >= 4
    /\ \E k \in DOMAIN args.a : args.a[k] # R(0)
    /\ \E k \in DOMAIN args.b : args.b[k] # R(0)
    /\ rx.b # args.b

\* C5: a Jacobi sweep with w = 0 leaves b as it was at every interior point.
C5_ZeroWeightNoOp ==
    (args.relax_method # 1 /\ args.w = R(0)) =>
        \A p \in Points(args.s) : rx.b[Flat(args.s, p)] = args.b[Flat(args.s, p)]

C5_Witness ==
    /\ rx.pc = "done"
    /\ args.relax_method # 1
    /\ args.w = R(0)
    /\ NPoints(args.s) >= 4
    /\ \E k \in DOMAIN args.b : args.b[k] # R(0)
    /\ \E p \in Points(args.s) : Residual(args, args.a, p) # args.b[Flat(args.s, p)]

\* C6: for the canonical scenario with a zero result field, the Gauss-Seidel
\* sweep and the Jacobi sweep with w = 1 produce different result fields.
C6_GaussSeidelDiffersFromJacobi ==
    (rx.pc = "done" /\ Canonical(args) /\ args.b = [k \in 0 .. 3 |-> R(0)]) =>
        rx.b # bmgs_relax([args EXCEPT !.relax_method = 2, !.w = R(1)]).b

-----------------------------------------------------------------------------
(* The halo exchange and the compute passes of one call *)

\* operation o begins the exchange of an axis: it packs the planes to send
BeginsAxis(o) == o.kind \in {"unpack1", "unpack"}

\* operation o ends the exchange of an axis: it unpacks the received planes
EndsAxis(o) == o.kind \in {"unpack2", "unpack"}

\* a compute pass that reads the ghost layers: full grid or boundary only
ReadsGhosts(o) == IsCompute(o) /\ ~BitSet(o.mode, GPAW_BOUNDARY_SKIP)

\* the fill of axis x of the sweep or batch of operation k has completed
\* before operation k was issued
AxisFilled(k, x) ==
    \E m \in 1 .. k - 1 :
        /\ ops[m].n = ops[k].n
        /\ EndsAxis(ops[m])
        /\ ops[m].axis = x
        /\ ops[m].st = "done"

\* C7: in every halo fill (CPU relax, CPU apply worker, debug mirrors, GPU
\* fallback, GPU overlapped) the axes are exchanged in the order 0, 1, 2: the
\* j-th exchange begun in a sweep is that of axis j, the pack of axis i + 1
\* does not begin before the unpack of axis i has completed, and a sweep that
\* reaches its compute pass has exchanged all three axes.
C7_AxisOrder ==
    \A k \in 1 .. Len(ops) :
        /\ BeginsAxis(ops[k]) =>
             /\ ops[k].axis =
                  Cardinality({m \in 1 .. k - 1 : /\ ops[m].n = ops[k].n
                                                  /\ BeginsAxis(ops[m])})
             /\ ops[k].axis \in 0 .. 2
             /\ (ops[k].axis > 0 /\ ops[k].st # "pending") =>
                    AxisFilled(k, ops[k].axis - 1)
        /\ ReadsGhosts(ops[k]) =>
             {ops[m].axis : m \in {q \in 1 .. k - 1 : /\ ops[q].n = ops[k].n
                                                     /\ BeginsAxis(ops[q])}}
                = 0 .. 2

C7_Witness ==
    /\ host.fn = "_operator_apply_cuda_gpu"
    /\ host.cuda_overlap # 0
    /\ \E k \in 1 .. Len(ops) :
          /\ ops[k].kind = "unpack" /\ ops[k].axis = 2 /\ ops[k].st = "running"
          /\ ops[k].n > 0
    /\ \E k \in 1 .. Len(ops) : ops[k].kind = "fd" /\ ops[k].st = "running"

\* the ghost-reading passes issued so far
GhostPasses == {k \in 1 .. Len(ops) : ReadsGhosts(ops[k])}

\* C8: a ghost-reading compute pass (full grid or boundary only) starts only
\* after the fills of all three axes of its own sweep or batch have completed;
\* there is one such pass per sweep, so a relax call that has returned made
\* exactly nrelax alternations of fill and compute, and with nrelax <= 0 it
\* neither exchanged nor computed anything.
C8_FillBeforeCompute ==
    /\ \A k \in GhostPasses :
          /\ ops[k].st # "pending" => \A x \in 0 .. 2 : AxisFilled(k, x)
          /\ \A m \in GhostPasses : ops[m].n = ops[k].n => m = k
    /\ (host.pc = "returned" /\ IsRelax(host.fn)) =>
          /\ Cardinality(GhostPasses) = Max(host.limit, 0)
          /\ {ops[k].n : k \in GhostPasses} = 0 .. host.limit - 1
          /\ host.limit <= 0 =>
                \A k \in 1 .. Len(ops) : IsMarker(ops[k])

C8_Witness ==
    /\ host.pc = "returned"
    /\ host.fn = "_operator_relax_cuda_gpu"
    /\ host.cuda_overlap # 0
    /\ host.limit = 2
    /\ \E k \in GhostPasses :
          ops[k].n = 1 /\ ops[k].stream = "s1" /\ ops[k].st = "running"

\* the doubles of the halo of a batch: the sum over the six (axis, direction)
\* pairs of max(nsend, nrecv) * blocks, as a mathematical integer
HaloDoubles(bc, blocks) ==
    LET pair(k) == Max(bc.nsend[(k - 1) \div 2][(k - 1) % 2],
                       bc.nrecv[(k - 1) \div 2][(k - 1) % 2]) * blocks
    IN  pair(1) + pair(2) + pair(3) + pair(4) + pair(5) + pair(6)

\* C9: the GPU entry points overlap exactly when the boundary test is non-zero
\* and the halo byte total, HaloDoubles * sizeof(double), is strictly greater
\* than GPU_OVERLAP_SIZE (stated in doubles: the threshold is a multiple of
\* sizeof(double)); the decision stays as taken before the first sweep.
C9_OverlapDecision ==
    (host.pc # "idle" /\ host.fn \in GpuFns) =>
        /\ (host.cuda_overlap # 0) <=>
              /\ host.test # 0
              /\ HaloDoubles(host.bc, host.blocks) > GPU_OVERLAP_SIZE \div SizeofDouble
        /\ \A k \in 1 .. Len(ops) :
              ops[k].stream \in {"s0", "s1"} <=> (host.cuda_overlap # 0 /\ k > 1)

\* C9, for halos whose byte total fits the int that accumulates it
C9_OverlapDecisionInRange ==
    (/\ host.pc # "idle" /\ host.fn \in GpuFns
     /\ HaloDoubles(host.bc, host.blocks) < 268435456) =>
        (host.cuda_overlap # 0) <=>
            /\ host.test # 0
            /\ HaloDoubles(host.bc, host.blocks) > GPU_OVERLAP_SIZE \div SizeofDouble

\* the paste of a sweep starts only after both passes of every earlier sweep
C10_PasteAfterBothPasses ==
    \A k \in 1 .. Len(ops) :
        (ops[k].kind = "paste" /\ ops[k].stream = "s0" /\ ops[k].st # "pending") =>
            \A m \in 1 .. k - 1 : IsCompute(ops[m]) => ops[m].st = "done"

\* C10 as stated: on the overlapped path the paste of sweep n + 1 does not
\* start until the interior-only and the boundary-only pass of sweep n have
\* completed, and the function returns only after both passes of the last
\* sweep have completed.
C10_ReturnsAfterBothPasses ==
    /\ C10_PasteAfterBothPasses
    /\ (host.pc = "returned" /\ host.fn \in GpuFns /\ host.cuda_overlap # 0) =>
          \A k \in 1 .. Len(ops) : IsCompute(ops[k]) => ops[k].st = "done"

\* C10 amended: on the overlapped path the paste of sweep n + 1 does not start
\* until both passes of sweep n have completed; the function returns only
\* after the interior-only pass of the last sweep has completed and after it
\* has made stream 0 wait for the event recorded behind the boundary-only pass
\* of the last sweep, which itself may still be running at the return.
C10_ReturnsAfterInteriorPass ==
    /\ C10_PasteAfterBothPasses
    /\ (host.pc = "returned" /\ host.fn \in GpuFns /\ host.cuda_overlap # 0) =>
          /\ \A k \in 1 .. Len(ops) :
                (IsCompute(ops[k]) /\ ops[k].st # "done") =>
                    /\ BitSet(ops[k].mode, GPAW_BOUNDARY_ONLY)
                    /\ \A m \in k + 1 .. Len(ops) : ~IsCompute(ops[m])
          /\ LET w == ops[Len(ops)]
             IN  /\ w.kind = "wait" /\ w.stream = "null"
                 /\ ops[w.dep].kind = "record"
                 /\ \A m \in w.dep + 1 .. Len(ops) : ops[m].kind = "wait"
                 /\ host.limit > 0 =>
                       /\ ops[w.dep].stream = "s1"
                       /\ ops[w.dep - 1].stream = "s1"
                       /\ BitSet(ops[w.dep - 1].mode, GPAW_BOUNDARY_ONLY)

C10_Witness ==
    /\ host.pc = "returned"
    /\ host.cuda_overlap # 0
    /\ host.limit >= 2
    /\ \E k \in 1 .. Len(ops) :
          ops[k].kind = "paste" /\ ops[k].n > 0 /\ ops[k].st = "done"
    /\ \E k \in 1 .. Len(ops) :
          BitSet(ops[k].mode, GPAW_BOUNDARY_ONLY) /\ ops[k].st = "running"

-----------------------------------------------------------------------------
(* One sweep of a device relax/apply on data: the paste, the exchange of    *)
(* the three axes and the compute passes over the subsets of the grid that  *)
(* the boundary modes select                                                *)

\* halo width of axis i on each side, from the padding of the descriptor
HaloWidth(s) ==
    LET sz2 == s.n[2] + s.j[2]
        h1 == (s.j[1] \div sz2) \div 2
        sz1 == s.n[1] + 2 * h1
    IN  [i \in 0 .. 2 |-> IF i = 2 THEN s.j[2] \div 2
                          ELSE IF i = 1 THEN h1
                          ELSE (s.j[0] \div (sz1 * sz2)) \div 2]

\* coordinate along axis i of cell k of the padded working buffer
CellCoord(s, k, i) ==
    LET sz2 == s.n[2] + 2 * HaloWidth(s)[2]
        sz1 == s.n[1] + 2 * HaloWidth(s)[1]
    IN  IF i = 2 THEN k % sz2
        ELSE IF i = 1 THEN (k \div sz2) % sz1
        ELSE k \div (sz1 * sz2)

\* cell k lies in the ghost margin of side (i, d)
GhostCell(s, k, i, d) ==
    IF d = 0 THEN CellCoord(s, k, i) < HaloWidth(s)[i]
    ELSE CellCoord(s, k, i) >= s.n[i] + HaloWidth(s)[i]

\* cell k holds an interior point
InteriorCell(s, k) ==
    \A i \in 0 .. 2 : ~GhostCell(s, k, i, 0) /\ ~GhostCell(s, k, i, 1)

\* the interior point of flat index k of the result and source arrays
PointAt(s, k) ==
    <<k \div (s.n[1] * s.n[2]), (k \div s.n[2]) % s.n[1], k % s.n[2]>>

\* Interior point p is boundary-adjacent for the bitmask: the stencil at p
\* reaches into the ghost margin of a side that has a neighbour.
BoundaryAdjacent(s, boundary, p) ==
    \E i \in 0 .. 2, d \in 0 .. 1 :
        /\ BitSet(boundary, SideFlag(i, d))
        /\ IF d = 0 THEN p[i + 1] < HaloWidth(s)[i]
           ELSE p[i + 1] >= s.n[i] - HaloWidth(s)[i]

\* bmgs_fd_boundary_test: 1 when some grid point is not boundary-adjacent
bmgs_fd_boundary_test(s, boundary) ==
    IF \E p \in Points(s) : ~BoundaryAdjacent(s, boundary, p) THEN 1 ELSE 0

\* the points a compute pass of the given mode handles: the whole grid, the
\* interior-only subset or the boundary-only subset
InPass(s, mode, p) ==
    IF BitSet(mode, GPAW_BOUNDARY_NORMAL) THEN TRUE
    ELSE IF BitSet(mode, GPAW_BOUNDARY_SKIP) THEN ~BoundaryAdjacent(s, mode, p)
    ELSE IF BitSet(mode, GPAW_BOUNDARY_ONLY) THEN BoundaryAdjacent(s, mode, p)
    ELSE FALSE

\* the mode of the first pass of the overlapped path, were it the full grid
InteriorMode_Normal(boundary) == GPAW_BOUNDARY_NORMAL

\* boundary|GPAW_BOUNDARY_SKIP
InteriorMode(boundary) == BitOr(boundary, GPAW_BOUNDARY_SKIP)

\* boundary|GPAW_BOUNDARY_ONLY
BoundaryMode(boundary) == BitOr(boundary, GPAW_BOUNDARY_ONLY)

\* bc_unpack_paste_cuda_gpu: the working buffer zeroed, with the owned data
\* of the field in its interior
DevicePaste(q) ==
    [q EXCEPT !.a = [k \in 0 .. BufLen(q.s) - 1 |->
                       IF InteriorCell(q.s, k)
                       THEN LET p == <<CellCoord(q.s, k, 0) - HaloWidth(q.s)[0],
                                       CellCoord(q.s, k, 1) - HaloWidth(q.s)[1],
                                       CellCoord(q.s, k, 2) - HaloWidth(q.s)[2]>>
                            IN  q.field[Flat(q.s, p)]
                       ELSE R(0)]]

\* bc_unpack_cuda_gpu(_async) of axis i: the planes received from the
\* neighbours of axis i stored in the ghost margins of that axis
DeviceUnpack(q, i) ==
    [q EXCEPT !.a = [k \in 0 .. BufLen(q.s) - 1 |->
                       IF \E d \in 0 .. 1 : /\ BitSet(q.boundary, SideFlag(i, d))
                                            /\ GhostCell(q.s, k, i, d)
                       THEN q.ghost[k] ELSE q.a[k]]]

\* one point of a compute pass: bmgs_fd writes the stencil sum to the output;
\* Gauss-Seidel writes x to the result and the working buffer; Jacobi blends
\* into the result
DevicePoint(q, p) ==
    LET s == q.s
        k == Flat(s, p)
        c == CellIndex(s, p)
        x == IF q.kind = "fd" THEN StencilSum(s, q.a, c, 0)
             ELSE IF q.relax_method = 1
             THEN GaussSeidelValue(s, q.a, c, q.src, k, 0)
             ELSE JacobiValue(s, q.a, c, q.b, k, q.src, k, q.w, 0)
    IN  [q EXCEPT !.b[k] = x,
                  !.a[c] = IF q.kind = "relax" /\ q.relax_method = 1 THEN x ELSE @,
                  !.wr[k] = @ + 1]

\* bmgs_relax_cuda_gpu / bmgs_fd_cuda_gpu with a boundary mode: the points of
\* the mode's subset, in scan order
RECURSIVE DevicePassFrom(_, _, _)
DevicePassFrom(q, mode, k) ==
    IF k >= NPoints(q.s) THEN q
    ELSE DevicePassFrom(IF InPass(q.s, mode, PointAt(q.s, k))
                        THEN DevicePoint(q, PointAt(q.s, k)) ELSE q,
                        mode, k + 1)

DevicePass(q, mode) == DevicePassFrom(q, mode, 0)

\* the sweep of the fallback path: paste, the exchange of axes 0, 1, 2 and
\* one full-grid pass
FallbackSweep(q) ==
    DevicePass(DeviceUnpack(DeviceUnpack(DeviceUnpack(DevicePaste(q), 0), 1), 2),
               GPAW_BOUNDARY_NORMAL)

\* the sides with a neighbour, for a descriptor with halo widths
SweepBoundaries == {Bc({}, 0, 0), Bc({2} \X (0 .. 1), 1, 1), Bc({<<2, 0>>}, 1, 1),
                    Bc(Sides, 1, 1)}

\* what the neighbours send: a value for every ghost cell
Ghosts(s) == [k \in 0 .. BufLen(s) - 1 |-> R((k % 2) + 1)]

\* the kinds of sweep: apply, Jacobi relax with w = 1/2, Gauss-Seidel relax
SweepKinds ==
    {[kind |-> "fd", relax_method |-> 0, w |-> R(1)],
     [kind |-> "relax", relax_method |-> 2, w |-> Rat(1, 2)],
     [kind |-> "relax", relax_method |-> 1, w |-> R(1)]}

\* The fields at the call: for apply the input field is pasted and out is
\* computed; for relax the result field fun is pasted and updated.
InitSweep ==
    /\ \E s \in Stencils, bc \in SweepBoundaries, kd \in SweepKinds, ov \in 0 .. 1 :
       \E d \in {Ramp(NPoints(s)), Stripes(NPoints(s))} :
         /\ ov = 1 => bmgs_fd_boundary_test(s, BoundaryMask(bc)) # 0
         /\ px = [pc |-> "paste", t1 |-> 0, kind |-> kd.kind,
                  relax_method |-> kd.relax_method, w |-> kd.w, s |-> s,
                  boundary |-> BoundaryMask(bc), cuda_overlap |-> ov,
                  field |-> d, src |-> Ones(NPoints(s)), ghost |-> Ghosts(s),
                  a |-> Ramp(BufLen(s)),
                  b |-> IF kd.kind = "fd" THEN Zeros(NPoints(s)) ELSE d,
                  wr |-> [k \in 0 .. NPoints(s) - 1 |-> 0]]
    /\ args = [relax_method |-> 0]
    /\ rx = [pc |-> "idle"]
    /\ host = IdleHost
    /\ ops = <<>>
    /\ event = [e \in 0 .. 1 |-> 0]
    /\ dev = IdleDev

\* bc_unpack_paste_cuda_gpu, on either path
SweepPaste ==
    /\ px.pc = "paste"
    /\ px' = [DevicePaste(px) EXCEPT
                !.pc = IF px.cuda_overlap # 0 THEN "skip" ELSE "unpack"]
    /\ UNCHANGED <<args, rx, host, ops, event, dev>>

\* the interior-only pass on operator_stream[0], after the paste
SweepInterior ==
    /\ px.pc = "skip"
    /\ px' = [DevicePass(px, InteriorMode(px.boundary)) EXCEPT !.pc = "sync"]
    /\ UNCHANGED <<args, rx, host, ops, event, dev>>

\* bc_unpack_cuda_gpu_async of the next axis on operator_stream[1], after
\* the paste
SweepUnpackAsync ==
    /\ px.cuda_overlap # 0 /\ px.pc \in {"skip", "sync"}
    /\ px.t1 < 3
    /\ px' = [DeviceUnpack(px, AxisArg(px.t1)) EXCEPT !.t1 = px.t1 + 1]
    /\ UNCHANGED <<args, rx, host, ops, event, dev>>

\* the boundary-only pass on operator_stream[1], after the three exchanges
SweepBoundary ==
    /\ px.cuda_overlap # 0 /\ px.pc \in {"skip", "sync"}
    /\ px.t1 = 3
    /\ px' = [DevicePass(px, BoundaryMode(px.boundary)) EXCEPT !.t1 = 4]
    /\ UNCHANGED <<args, rx, host, ops, event, dev>>

\* both passes of the sweep have completed
SweepJoin ==
    /\ px.pc = "sync" /\ px.t1 = 4
    /\ px' = [px EXCEPT !.pc = "done"]
    /\ UNCHANGED <<args, rx, host, ops, event, dev>>

\* bc_unpack_cuda_gpu of the next axis on the fallback path
SweepUnpack ==
    /\ px.pc = "unpack"
    /\ px' = [DeviceUnpack(px, AxisArg(px.t1)) EXCEPT
                !.t1 = px.t1 + 1,
                !.pc = IF px.t1 + 1 < 3 THEN "unpack" ELSE "normal"]
    /\ UNCHANGED <<args, rx, host, ops, event, dev>>

\* the full-grid pass of the fallback path
SweepFull ==
    /\ px.pc = "normal"
    /\ px' = [DevicePass(px, GPAW_BOUNDARY_NORMAL) EXCEPT !.pc = "done"]
    /\ UNCHANGED <<args, rx, host, ops, event, dev>>

NextSweep ==
    \/ SweepPaste \/ SweepInterior \/ SweepUnpackAsync \/ SweepBoundary
    \/ SweepJoin \/ SweepUnpack \/ SweepFull

SpecSweep == InitSweep /\ [][NextSweep]_vars

-----------------------------------------------------------------------------
(* Properties of the device sweep *)

\* the fields as they were at the call of the sweep in progress
SweepEntry(q) ==
    [q EXCEPT !.pc = "paste", !.t1 = 0,
              !.b = IF q.kind = "fd" THEN Zeros(NPoints(q.s)) ELSE q.field,
              !.wr = [k \in 0 .. NPoints(q.s) - 1 |-> 0]]

\* every interior point has been written exactly once
WrittenOnce(q) == \A k \in 0 .. NPoints(q.s) - 1 : q.wr[k] = 1

\* C11 as stated: for apply and for relax, when the overlapped sweep has
\* completed every interior point has been written by exactly one of its two
\* passes and the result field equals, at every grid point, the result of the
\* fallback sweep on the same input.
C11_OverlapEqualsFallback ==
    (px.pc = "done" /\ px.cuda_overlap # 0) =>
        /\ WrittenOnce(px)
        /\ px.b = FallbackSweep(SweepEntry(px)).b

\* C11 without the values of Gauss-Seidel: every interior point is written by
\* exactly one of the two overlapped passes, for apply and relax alike, and
\* for apply and for Jacobi relax the result equals that of the fallback
\* sweep at every grid point.
C11_OverlapEqualsFallbackJacobi ==
    (px.pc = "done" /\ px.cuda_overlap # 0) =>
        /\ WrittenOnce(px)
        /\ (px.kind = "fd" \/ px.relax_method # 1) =>
              px.b = FallbackSweep(SweepEntry(px)).b

-----------------------------------------------------------------------------
(* The scratch buffer and the streams over the calls that manage them *)

\* bc->ndouble: real or complex fields
NDoubles == {1, 2}

\* bc->size2 of the operators in use
Size2s == {<<1, 1, 2>>, <<1, 1, 3>>}

InitBuf ==
    /\ dev = IdleDev
    /\ args = [relax_method |-> 0]
    /\ rx = [pc |-> "idle"]
    /\ host = IdleHost
    /\ ops = <<>>
    /\ event = [e \in 0 .. 1 |-> 0]
    /\ px = IdlePx

operator_init_cuda ==
    /\ dev.calls < MaxCalls
    /\ dev' = InitCuda(dev)
    /\ UNCHANGED <<args, rx, host, ops, event, px>>

operator_alloc_buffers ==
    /\ dev.calls < MaxCalls
    /\ dev.nreg > 0
    /\ \E ndouble \in NDoubles, size2 \in Size2s, blocks \in 1..MaxNin,
          outcome \in MallocOutcomes :
            dev' = AllocBuffers(dev, Ng2(ndouble, size2, blocks), outcome)
    /\ UNCHANGED <<args, rx, host, ops, event, px>>

operator_dealloc_cuda ==
    /\ dev.calls < MaxCalls
    /\ \E force \in {0, 1} : dev' = DeallocCuda(dev, force)
    /\ UNCHANGED <<args, rx, host, ops, event, px>>

NextBuf == operator_init_cuda \/ operator_alloc_buffers \/ operator_dealloc_cuda

SpecBuf == InitBuf /\ [][NextBuf]_vars

-----------------------------------------------------------------------------
(* Properties of the scratch buffer *)

\* C12  Between releases the scratch buffer only grows: operator_buf_size is
\* the largest size requested since the last release, a call of
\* operator_alloc_buffers never lowers it, calls gpuMalloc exactly when its
\* request is strictly larger than the size, and leaves the buffer and the
\* size as they are otherwise.
C12_GrowOnly ==
    [][ (dev'.last.call = "alloc" /\ dev'.calls = dev.calls + 1) =>
          /\ dev'.operator_buf_size >= dev.operator_buf_size
          /\ dev'.operator_buf_size >= dev'.last.ng2
          /\ dev'.operator_buf_size = dev'.maxreq
          /\ dev.operator_buf_size = dev.maxreq
          /\ (dev'.nmalloc # dev.nmalloc) <=> (dev'.last.ng2 > dev.operator_buf_size)
          /\ (dev'.last.ng2 <= dev.operator_buf_size) =>
                /\ dev'.operator_buf_gpu = dev.operator_buf_gpu
                /\ dev'.operator_buf_size = dev.operator_buf_size
                /\ dev'.live = dev.live ]_vars

\* a call with a smaller request has followed a call that grew the buffer
C12_Witness ==
    /\ dev.last.call = "alloc"
    /\ dev.nmalloc = 2
    /\ dev.last.ng2 < dev.operator_buf_size
    /\ dev.operator_buf_gpu \in dev.live

\* the operators registered by operator_init_cuda and not yet deregistered
Registered == dev.ninit - dev.ndealloc

\* C13  Over calls of operator_init_cuda and of operator_dealloc_cuda(0), with
\* never more deallocs than inits: a dealloc frees the buffer and destroys the
\* streams and events exactly when it leaves no operator registered; any
\* other dealloc, and every init, leaves the buffer, its size and the streams
\* as they are, and no call of operator_alloc_buffers destroys the streams.
C13_ReleasedByLastOperator ==
    [][ (dev'.calls = dev.calls + 1 /\ ~dev'.forced /\ ~dev'.excess) =>
          /\ dev'.last.call = "dealloc" =>
                /\ dev'.last.released <=> (dev'.ninit - dev'.ndealloc = 0)
                /\ dev'.last.released =>
                      /\ dev'.live = dev.live \ {dev.operator_buf_gpu}
                      /\ dev.operator_buf_gpu \notin dev'.live
                      /\ ~dev'.streams_live
                      /\ dev'.operator_buf_gpu = 0
                      /\ dev'.operator_buf_size = 0
                      /\ dev'.operator_streams = 0
          /\ (dev'.last.call = "init" \/ (dev'.last.call = "dealloc" /\ ~dev'.last.released)) =>
                /\ dev'.live = dev.live
                /\ dev'.streams_live = dev.streams_live
                /\ dev'.operator_buf_gpu = dev.operator_buf_gpu
                /\ dev'.operator_buf_size = dev.operator_buf_size
                /\ dev'.operator_streams = dev.operator_streams
          /\ dev'.last.call = "alloc" => dev'.streams_live
          /\ dev'.operator_init_count = dev'.ninit - dev'.ndealloc ]_vars

\* the second of two operators has deregistered and released a buffer that
\* was allocated while both were registered
C13_Witness ==
    /\ ~dev.forced /\ ~dev.excess
    /\ dev.ninit = 2 /\ dev.ndealloc = 2
    /\ dev.last.call = "dealloc" /\ dev.last.released
    /\ dev.nmalloc >= 1 /\ dev.live = {} /\ ~dev.streams_live

-----------------------------------------------------------------------------
(* The debug mode of Operator_relax_cuda_gpu and Operator_apply_cuda_gpu:   *)
(* the call mirrored on the host and compared with the device result        *)

\* the debug statics of gpu/operators.c with no buffer allocated; nalloc and
\* nfree count the calls of debug_operator_allocate and _deallocate, diag is
\* the set of lines printed, simdlen the lane width of the host bmgs_relax
DebugIdle(debug) ==
    [pc |-> "idle", gpaw_cuda_debug |-> debug,
     debug_size_arr |-> 0, debug_size_buf |-> 0,
     debug_in_cpu |-> <<>>, debug_out_cpu |-> <<>>, debug_buf_cpu |-> <<>>,
     debug_out_gpu |-> <<>>, debug_buf_gpu |-> <<>>,
     nalloc |-> 0, nfree |-> 0, diag |-> {}, simdlen |-> 1]

\* debug_operator_allocate(self, nin, blocks)
debug_operator_allocate(h, s, nin, blocks) ==
    [h EXCEPT !.debug_size_arr = NPoints(s) * nin,
              !.debug_size_buf = BufLen(s) * blocks,
              !.nalloc = @ + 1]

\* debug_operator_deallocate
debug_operator_deallocate(h) ==
    [h EXCEPT !.debug_in_cpu = <<>>, !.debug_out_cpu = <<>>,
              !.debug_buf_cpu = <<>>, !.debug_out_gpu = <<>>,
              !.debug_buf_gpu = <<>>,
              !.debug_size_arr = 0, !.debug_size_buf = 0, !.nfree = @ + 1]

\* debug_operator_memcpy_pre(in, out)
debug_operator_memcpy_pre(h, in, out) ==
    [h EXCEPT !.debug_in_cpu = [k \in 0 .. h.debug_size_arr - 1 |-> in[k]],
              !.debug_out_cpu = [k \in 0 .. h.debug_size_arr - 1 |-> out[k]]]

\* debug_operator_memcpy_post(out, buf)
debug_operator_memcpy_post(h, out, buf) ==
    [h EXCEPT !.debug_out_gpu = [k \in 0 .. h.debug_size_arr - 1 |-> out[k]],
              !.debug_buf_gpu = [k \in 0 .. h.debug_size_buf - 1 |-> buf[k]]]

\* fabs of a difference
RDist(x, y) == LET d == RSub(x, y) IN <<Abs(d[1]), d[2]>>

\* MAX(x, y) on doubles
RMax(x, y) == IF x[1] * y[2] > y[1] * x[2] THEN x ELSE y

\* the error loop, were it to keep the discrepancy of the last element
ErrMax_Last(x, y, n) == IF n = 0 THEN R(0) ELSE RDist(x[n - 1], y[n - 1])

\* the largest fabs(x[i] - y[i]) for lo <= i < hi, 0 for an empty range; the
\* range is halved, the maximum not depending on the order of the comparisons
RECURSIVE ErrMaxIn(_, _, _, _)
ErrMaxIn(x, y, lo, hi) ==
    IF hi <= lo THEN R(0)
    ELSE IF hi = lo + 1 THEN RMax(R(0), RDist(x[lo], y[lo]))
    ELSE LET mid == (lo + hi) \div 2
         IN  RMax(ErrMaxIn(x, y, lo, mid), ErrMaxIn(x, y, mid, hi))

\* err = MAX(err, fabs(x[i] - y[i])) for i < n, from err = 0
ErrMax(x, y, n) == ErrMaxIn(x, y, 0, n)

\* err > GPU_ERROR_ABS_TOL, a tolerance of 1e-13: a discrepancy of the model
\* is a ratio of integers below 2^31, so it exceeds the tolerance exactly
\* when it is not zero
AboveTol(err) == err[1] > 0

\* the three bc_unpack1 / bc_unpack2 of the host mirror: the field pasted
\* into the host working buffer and the ghost margins of the three axes
\* filled
HostExchange(q, field) ==
    DeviceUnpack(DeviceUnpack(DeviceUnpack(
        DevicePaste([q EXCEPT !.field = field]), 0), 1), 2).a

\* the lines the two comparisons print
DebugLines(h) ==
    {l \in {"buf", "out"} :
        IF l = "buf"
        THEN AboveTol(ErrMax(h.debug_buf_cpu, h.debug_buf_gpu, h.debug_size_buf))
        ELSE AboveTol(ErrMax(h.debug_out_cpu, h.debug_out_gpu, h.debug_size_arr))}

\* debug_operator_relax for one sweep
debug_operator_relax(h, q) ==
    LET r == bmgs_relax([s |-> q.s, relax_method |-> q.relax_method, w |-> q.w,
                         src |-> h.debug_in_cpu, simdlen |-> h.simdlen,
                         a |-> HostExchange(q, h.debug_out_cpu),
                         b |-> h.debug_out_cpu])
        c == [h EXCEPT !.debug_buf_cpu = r.a, !.debug_out_cpu = r.b]
    IN  [c EXCEPT !.diag = DebugLines(c)]

\* debug_operator_apply for one field
debug_operator_apply(h, q) ==
    LET buf == HostExchange(q, h.debug_in_cpu)
        c == [h EXCEPT
                !.debug_buf_cpu = buf,
                !.debug_out_cpu = DevicePass([q EXCEPT !.a = buf, !.kind = "fd"],
                                             GPAW_BOUNDARY_NORMAL).b]
    IN  [c EXCEPT !.diag = DebugLines(c)]

\* the operators of the calls followed in debug mode
DebugStencils == {s \in Stencils : s.n[0] = 1 /\ s.j[0] = 0}

\* The call of Operator_relax_cuda_gpu (one sweep) or Operator_apply_cuda_gpu
\* (one field) with gpaw_cuda_debug on or off.
InitDebug ==
    /\ \E s \in DebugStencils, bc \in SweepBoundaries, kd \in SweepKinds,
          ov \in 0 .. 1, debug \in 0 .. 1 :
         /\ ov = 1 => bmgs_fd_boundary_test(s, BoundaryMask(bc)) # 0
         /\ px = [pc |-> "call", t1 |-> 0, kind |-> kd.kind,
                  relax_method |-> kd.relax_method, w |-> kd.w, s |-> s,
                  boundary |-> BoundaryMask(bc), cuda_overlap |-> ov,
                  field |-> Ramp(NPoints(s)), src |-> Ones(NPoints(s)),
                  ghost |-> Ghosts(s), a |-> Ramp(BufLen(s)),
                  b |-> IF kd.kind = "fd" THEN Zeros(NPoints(s))
                        ELSE Ramp(NPoints(s)),
                  wr |-> [k \in 0 .. NPoints(s) - 1 |-> 0]]
         /\ host = DebugIdle(debug)
    /\ args = [relax_method |-> 0]
    /\ rx = [pc |-> "idle"]
    /\ ops = <<>>
    /\ event = [e \in 0 .. 1 |-> 0]
    /\ dev = IdleDev

\* the wrapper up to the call of _operator_relax_cuda_gpu or
\* _operator_apply_cuda_gpu
WrapperCall ==
    /\ px.pc = "call"
    /\ host' = IF host.gpaw_cuda_debug # 0
               THEN debug_operator_memcpy_pre(
                        debug_operator_allocate(host, px.s, 1, 1),
                        IF px.kind = "fd" THEN px.field ELSE px.src, px.b)
               ELSE host
    /\ px' = [px EXCEPT !.pc = "paste"]
    /\ UNCHANGED <<args, rx, ops, event, dev>>

\* the wrapper after the call: in debug mode the device result copied to the
\* host, the host mirror run and compared, the debug buffers freed
WrapperReturn ==
    /\ px.pc = "done"
    /\ \E simdlen \in SimdWidths :
         host' = IF host.gpaw_cuda_debug # 0
                 THEN LET c == debug_operator_memcpy_post(
                                   [host EXCEPT !.simdlen = simdlen], px.b, px.a)
                      IN  debug_operator_deallocate(
                              IF px.kind = "fd" THEN debug_operator_apply(c, px)
                              ELSE debug_operator_relax(c, px))
                 ELSE host
    /\ px' = [px EXCEPT !.pc = "returned"]
    /\ UNCHANGED <<args, rx, ops, event, dev>>

NextDebug ==
    \/ WrapperCall \/ WrapperReturn
    \/ SweepPaste \/ SweepInterior \/ SweepUnpackAsync \/ SweepBoundary
    \/ SweepJoin \/ SweepUnpack \/ SweepFull

SpecDebug == InitDebug /\ [][NextDebug]_vars

-----------------------------------------------------------------------------
(* Properties of the debug mode *)

\* what the host mirror computes from the fields at the call
MirrorOf(q, simdlen) ==
    LET e == SweepEntry(q)
        buf == HostExchange(e, e.field)
    IN  IF q.kind = "fd"
        THEN [buf |-> buf, out |-> FallbackSweep(e).b]
        ELSE LET r == bmgs_relax([s |-> e.s, relax_method |-> e.relax_method,
                                  w |-> e.w, src |-> e.src, simdlen |-> simdlen,
                                  a |-> buf, b |-> e.field])
             IN  [buf |-> r.a, out |-> r.b]

\* some element of x and y differs by more than the tolerance
Discrepant(x, y) == \E k \in DOMAIN x : AboveTol(RDist(x[k], y[k]))

\* C14  Debug mode leaves the primary result alone: the steps of the wrapper
\* change no device field, and the device sweep changes no debug static, so
\* the result field and the working buffer at the return are those of the
\* same sweep with debug off (on the fallback path, and for apply and Jacobi
\* on the overlapped path, the result of the fallback sweep).  A line is
\* printed for the working buffer, and one for the result, exactly when some
\* element of the device copy differs from the host mirror by more than the
\* tolerance.  At the return every debug_operator_allocate has been matched
\* by a debug_operator_deallocate, and there is one of each when debug is on.
C14_DebugLeavesResult ==
    [][ /\ px.pc \in {"call", "done"} =>
             /\ px' = [px EXCEPT !.pc = px'.pc]
             /\ dev' = dev
        /\ px.pc \notin {"call", "done"} => host' = host
        /\ host'.nalloc - host'.nfree \in 0 .. 1
        /\ px'.pc = "returned" =>
             /\ host'.nalloc = host'.nfree
             /\ host'.nalloc = (IF host'.gpaw_cuda_debug # 0 THEN 1 ELSE 0)
             /\ (px'.cuda_overlap = 0 \/ px'.kind = "fd" \/ px'.relax_method # 1) =>
                   LET f == FallbackSweep(SweepEntry(px'))
                   IN  px'.b = f.b /\ px'.a = f.a
             /\ host'.gpaw_cuda_debug = 0 => host'.diag = {}
             /\ host'.gpaw_cuda_debug # 0 =>
                   LET m == MirrorOf(px', host'.simdlen)
                   IN  /\ "buf" \in host'.diag <=> Discrepant(m.buf, px'.a)
                       /\ "out" \in host'.diag <=> Discrepant(m.out, px'.b) ]_vars

\* a call in debug mode has returned after printing a line for the result
C14_Witness ==
    /\ px.pc = "returned"
    /\ host.gpaw_cuda_debug # 0
    /\ host.nalloc = 1 /\ host.nfree = 1
    /\ "out" \in host.diag

-----------------------------------------------------------------------------
(* The ELPA wrappers of elpa.c *)

\* ELPA_OK
ELPA_OK == 0

\* the statuses the library hands back
ElpaStatuses == 0 .. 2

\* elpa_strerr: the message of a status
elpa_strerr(err) == <<"elpa_strerr", err>>

\* checkerr: None for ELPA_OK, otherwise the RuntimeError set and NULL
checkerr(err) ==
    IF err # ELPA_OK
    THEN [result |-> "NULL", pyerr |-> <<"RuntimeError", elpa_strerr(err)>>]
    ELSE [result |-> "None", pyerr |-> <<>>]

\* the wrappers that hand the status of a library call to checkerr
ElpaStatusFns ==
    {"pyelpa_set", "pyelpa_allocate", "pyelpa_setup", "pyelpa_set_comm",
     "pyelpa_diagonalize", "pyelpa_general_diagonalize"}

\* a wrapper whose PyArg_ParseTuple failed: NULL, with the error the parser set
ParseFailed(q, fn) ==
    [q EXCEPT !.n = @ + 1, !.fn = fn, !.parsed = FALSE, !.called = FALSE,
              !.status = ELPA_OK, !.result = "NULL", !.pyerr = <<"TypeError">>]

\* a wrapper that has parsed its arguments and hands err to checkerr, after a
\* library call or without one
Checked(q, fn, called, libstatus, err) ==
    [q EXCEPT !.n = @ + 1, !.fn = fn, !.parsed = TRUE, !.called = called,
              !.libcalls = IF called THEN @ + 1 ELSE @,
              !.status = libstatus,
              !.result = checkerr(err).result, !.pyerr = checkerr(err).pyerr]

\* no wrapper called yet; status is what the library returns, or would
\* return, for the arguments of the last call
InitElpa ==
    /\ px = [pc |-> "elpa", n |-> 0, libcalls |-> 0, fn |-> "none",
             parsed |-> FALSE, called |-> FALSE, status |-> ELPA_OK,
             result |-> "none", pyerr |-> <<>>]
    /\ args = [relax_method |-> 0]
    /\ rx = [pc |-> "idle"]
    /\ host = IdleHost
    /\ ops = <<>>
    /\ event = [e \in 0 .. 1 |-> 0]
    /\ dev = IdleDev

\* pyelpa_set, pyelpa_allocate, pyelpa_setup, pyelpa_set_comm,
\* pyelpa_diagonalize, pyelpa_general_diagonalize
pyelpa_status_call ==
    /\ px.n < MaxCalls
    /\ \E fn \in ElpaStatusFns, parsed \in BOOLEAN, libstatus \in ElpaStatuses :
         px' = IF parsed THEN Checked(px, fn, TRUE, libstatus, libstatus)
               ELSE ParseFailed(px, fn)
    /\ UNCHANGED <<args, rx, host, ops, event, dev>>

\* pyelpa_hermitian_multiply: err = 1, the library call commented out
pyelpa_hermitian_multiply ==
    /\ px.n < MaxCalls
    /\ \E parsed \in BOOLEAN, libstatus \in ElpaStatuses :
         px' = IF parsed
               THEN Checked(px, "pyelpa_hermitian_multiply", FALSE, libstatus, 1)
               ELSE ParseFailed(px, "pyelpa_hermitian_multiply")
    /\ UNCHANGED <<args, rx, host, ops, event, dev>>

NextElpa == pyelpa_status_call \/ pyelpa_hermitian_multiply

SpecElpa == InitElpa /\ [][NextElpa]_vars

-----------------------------------------------------------------------------
(* Properties of the ELPA wrappers *)

\* C15 as stated: each of the seven wrappers, once its arguments are parsed,
\* obtains a status from the library and returns None when that status is
\* ELPA_OK and otherwise sets a RuntimeError with the message
\* elpa_strerr(status) and returns NULL; a failed parse returns NULL without
\* a library call.
C15_StatusReported ==
    [][ px'.n = px.n + 1 =>
          /\ ~px'.parsed =>
                /\ px'.result = "NULL"
                /\ px'.libcalls = px.libcalls
          /\ px'.parsed =>
                /\ px'.libcalls = px.libcalls + 1
                /\ px'.status = ELPA_OK =>
                      px'.result = "None" /\ px'.pyerr = <<>>
                /\ px'.status # ELPA_OK =>
                      /\ px'.result = "NULL"
                      /\ px'.pyerr = <<"RuntimeError", elpa_strerr(px'.status)>> ]_vars

\* the same for the six wrappers that call the library
C15_StatusReportedBySix ==
    [][ (px'.n = px.n + 1 /\ px'.fn \in ElpaStatusFns) =>
          /\ ~px'.parsed =>
                /\ px'.result = "NULL"
                /\ px'.libcalls = px.libcalls
          /\ px'.parsed =>
                /\ px'.libcalls = px.libcalls + 1
                /\ px'.status = ELPA_OK =>
                      px'.result = "None" /\ px'.pyerr = <<>>
                /\ px'.status # ELPA_OK =>
                      /\ px'.result = "NULL"
                      /\ px'.pyerr = <<"RuntimeError", elpa_strerr(px'.status)>> ]_vars

-----------------------------------------------------------------------------
(* Properties of device failures *)

\* C16 as stated: a failed device call ends the process, so once gpuMalloc
\* has failed in operator_alloc_buffers the host takes no further step of
\* the relax or apply call: it issues nothing more and does not return.
C16_FailureIsFatal ==
    [][ dev.failed => (host' = host /\ dev' = dev) ]_vars

-----------------------------------------------------------------------------
(* The pointer walk of bmgs_relax *)

\* the index in src and b of the next point the loop nest handles
NextIndex(r) == IF r.pc = "done" THEN r.srcp ELSE r.srcp + r.i2

\* C17  In both variants the working-buffer pointer starts at
\* (j[0] + j[1] + j[2]) / 2 and, with src and b at the same index, the loop
\* nest is at interior point <<i0, i1, i2>> with src/b index the row-major
\* index of the point and working-buffer index the index of the point in the
\* padded buffer; every step handles the next indices of the current row, so
\* the indices 0 .. n0*n1*n2 - 1 are visited in order, once each, and the
\* walk ends after exactly n0*n1*n2 points.
C17_PointerWalk ==
    [][ LET s == args.s
            p == <<rx'.i0, rx'.i1, rx'.i2>>
        IN  /\ rx.pc = "entry" =>
                  /\ rx'.ap = (s.j[0] + s.j[1] + s.j[2]) \div 2
                  /\ rx'.srcp = 0 /\ rx'.bp = 0
            /\ rx'.pc = "loop" =>
                  /\ p \in Points(s)
                  /\ rx'.ap + rx'.i2 = CellIndex(s, p)
                  /\ rx'.srcp + rx'.i2 = Flat(s, p)
                  /\ rx'.bp = rx'.srcp
            /\ rx.pc = "loop" =>
                  /\ NextIndex(rx') > NextIndex(rx)
                  /\ NextIndex(rx') <= rx.srcp + s.n[2]
                  /\ rx'.i2 = 0 => /\ rx'.srcp = rx.srcp + s.n[2]
                                   /\ rx'.ap - rx.ap \in
                                         {s.j[2] + s.n[2], s.j[2] + s.n[2] + s.j[1]}
                  /\ rx'.i2 # 0 => (rx'.srcp = rx.srcp /\ rx'.ap = rx.ap)
            /\ rx'.pc = "done" =>
                  /\ rx'.srcp = NPoints(s) /\ rx'.bp = NPoints(s)
                  /\ rx'.i0 = s.n[0] ]_vars

\* a Jacobi sweep over a 2 x 2 x n2 grid with padding on every axis has ended
C17_Witness ==
    /\ rx.pc = "done"
    /\ args.relax_method # 1
    /\ args.s.n[0] = 2 /\ args.s.n[1] = 2 /\ args.s.n[2] >= 2
    /\ args.s.j[0] > 0 /\ args.s.j[1] > 0
    /\ rx.srcp = NPoints(args.s)

-----------------------------------------------------------------------------
(* The schedule of a sweep on the two paths *)

\* operation o is the interior-only pass, the boundary-only pass
IsInteriorPass(o) == IsCompute(o) /\ BitSet(o.mode, GPAW_BOUNDARY_SKIP)

IsBoundaryPass(o) == IsCompute(o) /\ BitSet(o.mode, GPAW_BOUNDARY_ONLY)

\* every operation issued to the stream of operation k before it is done
StreamDrained(k) ==
    \A m \in 1 .. k - 1 : ops[m].stream = ops[k].stream => ops[m].st = "done"

\* C18  On the overlapped path, in every sweep or batch: the paste is the
\* first operation on data, it is issued to stream 0 and followed at once by
\* the record of event 0 on stream 0 and by the interior-only pass on
\* stream 0; the interior-only pass may start as soon as stream 0 has
\* drained, whatever the state of the exchange; the exchange of axes 0, 1, 2
\* is issued to stream 1 and no part of it starts before the paste has
\* completed; the boundary-only pass is issued to stream 1 right after the
\* three exchanges and does not start before they have completed; there is
\* no other compute pass.
C18_OverlapSchedule ==
    (host.fn \in GpuFns /\ host.cuda_overlap # 0) =>
        \A k \in 1 .. Len(ops) :
            /\ ops[k].kind = "paste" =>
                  /\ ops[k].stream = "s0"
                  /\ \A m \in 1 .. k - 1 : ops[m].n = ops[k].n => IsMarker(ops[m])
                  /\ k + 1 <= Len(ops) =>
                        ops[k + 1].kind = "record" /\ ops[k + 1].stream = "s0"
                  /\ k + 2 <= Len(ops) => IsInteriorPass(ops[k + 2])
            /\ IsInteriorPass(ops[k]) =>
                  /\ ops[k].stream = "s0"
                  /\ ops[k - 2].kind = "paste" /\ ops[k - 2].n = ops[k].n
                  /\ (ops[k].st = "pending" /\ StreamDrained(k)) => Startable(k)
            /\ ops[k].kind = "unpack" =>
                  /\ ops[k].stream = "s1"
                  /\ ops[k].st # "pending" =>
                        \E m \in 1 .. k - 1 :
                            /\ ops[m].kind = "paste" /\ ops[m].n = ops[k].n
                            /\ ops[m].st = "done"
                            /\ ops[m + 1].st = "done"
            /\ IsBoundaryPass(ops[k]) =>
                  /\ ops[k].stream = "s1"
                  /\ \A x \in 0 .. 2 :
                        /\ ops[k - 3 + x].kind = "unpack"
                        /\ ops[k - 3 + x].axis = x
                        /\ ops[k - 3 + x].n = ops[k].n
                        /\ ops[k].st # "pending" => ops[k - 3 + x].st = "done"
            /\ IsCompute(ops[k]) => IsInteriorPass(ops[k]) \/ IsBoundaryPass(ops[k])

\* in the second sweep the interior-only pass has completed while the
\* exchange of the sweep has not begun and the boundary-only pass is pending
C18_Witness ==
    /\ host.fn \in GpuFns /\ host.cuda_overlap # 0
    /\ \E k \in 1 .. Len(ops) :
          /\ IsInteriorPass(ops[k]) /\ ops[k].n > 0 /\ ops[k].st = "done"
          /\ k + 5 <= Len(ops)
          /\ ops[k + 2].kind = "unpack" /\ ops[k + 2].st = "pending"
          /\ IsBoundaryPass(ops[k + 5]) /\ ops[k + 5].st = "pending"

\* C19  Without overlap every sweep or batch of a device call is, on the
\* default stream and in this order, the paste, the blocking exchange of axes
\* 0, 1, 2 and one full-grid pass with GPAW_BOUNDARY_NORMAL, each starting
\* after everything issued before it has completed; nothing is issued to
\* operator_stream[0] or operator_stream[1], no event is recorded or waited
\* on, and the call returns from its loop without the final wait and stream
\* synchronization.
C19_FallbackSchedule ==
    (host.fn \in GpuFns /\ host.cuda_overlap = 0) =>
        /\ host.pc \in {"idle", "call", "f_paste", "f_unpack", "f_compute", "returned"}
        /\ event = [e \in 0 .. 1 |-> 0]
        /\ \A k \in 1 .. Len(ops) :
              LET j == (k - 1) % 5
              IN  /\ ops[k].stream = "null"
                  /\ ~IsMarker(ops[k])
                  /\ ops[k].dep = 0
                  /\ ops[k].n = ((k - 1) \div 5) * host.blocks
                  /\ j = 0 => ops[k].kind = "paste"
                  /\ j \in 1 .. 3 =>
                        /\ ops[k].kind = "unpack" /\ ops[k].axis = j - 1
                        /\ \A m \in 1 .. k : ops[m].st = "done"
                  /\ j = 4 =>
                        /\ IsCompute(ops[k])
                        /\ ops[k].mode = GPAW_BOUNDARY_NORMAL
                  /\ ops[k].st # "pending" =>
                        \A m \in 1 .. k - 1 : ops[m].st = "done"
        /\ host.pc = "returned" => Len(ops) = 5 * Cardinality({ops[k].n : k \in 1 .. Len(ops)})

\* a call of two sweeps or batches without overlap has returned while its
\* last full-grid pass is running
C19_Witness ==
    /\ host.fn \in GpuFns /\ host.cuda_overlap = 0
    /\ host.pc = "returned"
    /\ Len(ops) = 10
    /\ ops[10].st = "running"
    /\ ops[5].mode = GPAW_BOUNDARY_NORMAL /\ ops[5].st = "done"

-----------------------------------------------------------------------------
(* The scratch regions of the apply workers *)

\* the doubles of one field in the send, receive and working buffer
WorkerUnits(h) == {MaxSend(h.bc), MaxRecv(h.bc), Ng2(1, CallSize2, 1)}

\* C20  In the CPU batched apply a worker places in its buffers, in every
\* exchange round, at least one and at most the configured chunk size of
\* fields; the doubles it uses of the send, receive and working buffer lie
\* in the slot of its thread id, and they are disjoint from what a worker
\* of any other thread id uses in a round of any admissible size.
C20_WorkerRegionsDisjoint ==
    (host.fn = "apply_worker_cuda_cpu" /\ host.pc # "idle") =>
        /\ host.myblocks \in 1 .. host.blocks
        /\ \A k \in 1 .. Len(ops) : ops[k].nb \in 1 .. host.blocks
        /\ \A unit \in WorkerUnits(host) :
              /\ \A x \in WorkerRegion(host, unit) :
                    /\ x >= host.thread_id * unit * host.blocks
                    /\ x < (host.thread_id + 1) * unit * host.blocks
              /\ \A u \in (0 .. host.nthds - 1) \ {host.thread_id}, c \in 1 .. host.blocks :
                    WorkerRegion(host, unit)
                      \cap WorkerRegion([host EXCEPT !.thread_id = u, !.myblocks = c], unit)
                      = {}

\* the second of two workers is in a round of two fields, the configured
\* chunk size, with a neighbour on every side
C20_Witness ==
    /\ host.fn = "apply_worker_cuda_cpu"
    /\ host.nthds = 2 /\ host.thread_id = 1
    /\ host.blocks = 2 /\ host.myblocks = 2
    /\ MaxSend(host.bc) > 0
    /\ \E k \in 1 .. Len(ops) : ops[k].kind = "unpack1" /\ ops[k].nb = 2

-----------------------------------------------------------------------------
(* The boundary-role bitmask of the device kernels *)

\* the three mode flags, and their bits together
ModeFlags == {GPAW_BOUNDARY_NORMAL, GPAW_BOUNDARY_SKIP, GPAW_BOUNDARY_ONLY}

ModeBits == GPAW_BOUNDARY_NORMAL + GPAW_BOUNDARY_SKIP + GPAW_BOUNDARY_ONLY

\* the side flags of a kernel's boundary argument
SideBits(mode) == mode - BitAnd(mode, ModeBits)

\* the side flags that the sides of a set stand for
FlagsOf(active) ==
    LET RECURSIVE sum(_)
        sum(S) == IF S = {} THEN 0
                  ELSE LET s == CHOOSE s \in S : TRUE
                       IN  SideFlag(s[1], s[2]) + sum(S \ {s})
    IN  sum(active)

\* the device kernel calls of the call under way
DeviceComputes == {k \in 1 .. Len(ops) : IsCompute(ops[k]) /\ ops[k].stream # "host"}

\* C21: the flag of side (axis, direction) is in the mask exactly when
\* sendproc[axis][direction] differs from DO_NOTHING; the six side flags are
\* distinct from each other and from the three mode flags, and any subset of
\* sides gives the mask of exactly its flags; every device kernel call gets
\* exactly one mode flag: SKIP with the side flags on the interior-only pass
\* and ONLY with the same side flags on the boundary-only pass, and NORMAL
\* with no side flag on the fallback path.
C21_BoundaryRoles ==
    /\ \A s \in Sides :
         BitSet(host.boundary, SideFlag(s[1], s[2]))
            <=> host.bc.sendproc[s[1]][s[2]] # DO_NOTHING
    /\ \A s \in Sides :
         /\ SideFlag(s[1], s[2]) \notin ModeFlags
         /\ BitAnd(SideFlag(s[1], s[2]), ModeBits) = 0
         /\ \A t \in Sides : s # t => BitAnd(SideFlag(s[1], s[2]), SideFlag(t[1], t[2])) = 0
    /\ host.pc = "call" \/ host.pc = "idle" =>
         \A active \in SUBSET Sides : BoundaryMask(Bc(active, 1, 1)) = FlagsOf(active)
    /\ SideBits(host.boundary) = host.boundary
    /\ \A k \in DeviceComputes :
         LET o == ops[k]
         IN  /\ BitAnd(o.mode, ModeBits) \in ModeFlags
             /\ IF host.cuda_overlap # 0
                THEN /\ SideBits(o.mode) = host.boundary
                     /\ o.stream = "s0" <=> BitSet(o.mode, GPAW_BOUNDARY_SKIP)
                     /\ o.stream = "s1" <=> BitSet(o.mode, GPAW_BOUNDARY_ONLY)
                     /\ o.stream \in {"s0", "s1"}
                ELSE o.mode = GPAW_BOUNDARY_NORMAL

\* an overlapped call whose boundary has some but not all sides, with both
\* passes of a sweep or batch finished
C21_Witness ==
    /\ host.boundary # 0
    /\ \E s \in Sides : ~BitSet(host.boundary, SideFlag(s[1], s[2]))
    /\ \E k, m \in DeviceComputes :
         /\ ops[k].mode = host.boundary + GPAW_BOUNDARY_SKIP
         /\ ops[m].mode = host.boundary + GPAW_BOUNDARY_ONLY
         /\ ops[k].st = "done" /\ ops[m].st = "done"

-----------------------------------------------------------------------------
(* Safety of the scratch buffer under any call sequence *)

\* C22: under any sequence of operator_init_cuda, operator_alloc_buffers and
\* operator_dealloc_cuda calls, forced or not: operator_init_count is never
\* negative; a forced dealloc leaves buffer pointer, size, count and stream
\* flag at their initial values with the buffer and the streams released;
\* streams and events are destroyed only while they exist and created only
\* while they do not; and gpuFree is never handed a buffer that has been
\* freed already.
C22_BufferSafety ==
    /\ dev.operator_init_count >= 0
    /\ (dev.last.call = "dealloc" /\ dev.last.released) =>
         /\ dev.operator_buf_gpu = 0 /\ dev.operator_buf_size = 0
         /\ dev.operator_init_count = 0 /\ dev.operator_streams = 0
         /\ ~dev.streams_live
    /\ ~dev.redestroyed
    /\ ~dev.recreated
    /\ ~dev.refreed

\* the part of C22 that holds: the count, the reset and the streams
C22_CountAndStreams ==
    /\ dev.operator_init_count >= 0
    /\ (dev.last.call = "dealloc" /\ dev.last.released) =>
         /\ dev.operator_buf_gpu = 0 /\ dev.operator_buf_size = 0
         /\ dev.operator_init_count = 0 /\ dev.operator_streams = 0
         /\ ~dev.streams_live
    /\ ~dev.redestroyed
    /\ ~dev.recreated
    /\ dev.streams_live <=> dev.operator_streams # 0

-----------------------------------------------------------------------------
(* The two passes of an overlapped sweep, which run unordered *)

\* the grid points of the pass of a mode
PassPoints(q, mode) == {p \in Points(q.s) : InPass(q.s, mode, p)}

\* the working-buffer cells a pass writes: Gauss-Seidel stores x at the
\* centre cell of each of its points
CellsWritten(q, mode) ==
    IF q.kind = "relax" /\ q.relax_method = 1
    THEN {CellIndex(q.s, p) : p \in PassPoints(q, mode)}
    ELSE {}

\* the working-buffer cells a pass reads: the neighbours of its points
CellsRead(q, mode) ==
    {CellIndex(q.s, p) + q.s.offsets[c] :
        p \in PassPoints(q, mode), c \in 1 .. q.s.ncoefs - 1}

\* the result cells a pass reads or writes
ResultCells(q, mode) == {Flat(q.s, p) : p \in PassPoints(q, mode)}

\* no cell written by one pass is read or written by the other
RaceFree(q) ==
    LET int == InteriorMode(q.boundary)
        bnd == BoundaryMode(q.boundary)
    IN  /\ CellsWritten(q, int) \cap (CellsRead(q, bnd) \cup CellsWritten(q, bnd)) = {}
        /\ CellsWritten(q, bnd) \cap (CellsRead(q, int) \cup CellsWritten(q, int)) = {}
        /\ ResultCells(q, int) \cap ResultCells(q, bnd) = {}

\* the overlapped sweep with stream 1 held back until stream 0 has finished
InteriorFirstSweep(q) ==
    DevicePass(DeviceUnpack(DeviceUnpack(DeviceUnpack(
                   DevicePass(DevicePaste(q), InteriorMode(q.boundary)), 0), 1), 2),
               BoundaryMode(q.boundary))

\* C23: in an overlapped Gauss-Seidel sweep no working-buffer or result cell
\* written by the interior-only pass or the boundary-only pass is read or
\* written by the other of the two, and the result of the finished sweep is
\* the same however the two streams interleaved.
C23_GaussSeidelRaceFree ==
    (px.cuda_overlap # 0 /\ px.kind = "relax" /\ px.relax_method = 1
        /\ px.pc = "done") =>
              /\ RaceFree(px)
              /\ px.b = InteriorFirstSweep(SweepEntry(px)).b
              /\ px.a = InteriorFirstSweep(SweepEntry(px)).a

\* the same for apply and Jacobi relax, whose passes do not write the
\* working buffer
C23_ApplyJacobiRaceFree ==
    (px.cuda_overlap # 0 /\ ~(px.kind = "relax" /\ px.relax_method = 1)
        /\ px.pc = "done") =>
              /\ RaceFree(px)
              /\ px.b = InteriorFirstSweep(SweepEntry(px)).b
              /\ px.a = InteriorFirstSweep(SweepEntry(px)).a

-----------------------------------------------------------------------------
(* The scratch buffer once every operator has deregistered *)

\* C24: over any calls of operator_init_cuda, operator_alloc_buffers and
\* operator_dealloc_cuda, forced or not, each dealloc made by an operator
\* that is registered: once the last registered operator has made its call
\* the scratch buffer is freed and the streams and events are destroyed, with
\* operator_buf_gpu null, operator_buf_size 0 and operator_streams 0.
C24_NothingLeaked ==
    (dev.last.call = "dealloc" /\ dev.nreg = 0 /\ ~dev.excess) =>
        /\ dev.live = {}
        /\ ~dev.streams_live
        /\ dev.operator_buf_gpu = 0
        /\ dev.operator_buf_size = 0
        /\ dev.operator_streams = 0

\* the same over calls none of which is forced
C24_NothingLeakedUnforced ==
    (dev.last.call = "dealloc" /\ dev.nreg = 0 /\ ~dev.excess /\ ~dev.forced) =>
        /\ dev.live = {}
        /\ ~dev.streams_live
        /\ dev.operator_buf_gpu = 0
        /\ dev.operator_buf_size = 0
        /\ dev.operator_streams = 0

-----------------------------------------------------------------------------
(* The batches of the device apply *)

\* the batches issued so far by _operator_apply_cuda_gpu: one full-grid or
\* interior-only kernel call each
BatchCalls ==
    {k \in 1 .. Len(ops) :
        /\ host.fn = "_operator_apply_cuda_gpu"
        /\ IsCompute(ops[k])
        /\ ops[k].stream \in {"null", "s0"}}

\* the field indices of batch k
BatchFields(k) == ops[k].n .. ops[k].n + ops[k].nb - 1

\* the doubles of scratch space per block that the call reserved
ReservedPerBlock == dev.last.ng2 \div host.blocks

\* C25: the block count of Operator_apply_cuda_gpu is at least 1, and at most
\* nin when nin >= 1; every batch of _operator_apply_cuda_gpu starts inside
\* 0..nin-1 and takes myblocks = min(blocks, nin - n) fields with
\* 1 <= myblocks <= blocks; the batches are pairwise disjoint and follow each
\* other without a gap, so that the loop ends after at most nin batches, and
\* when it has ended they cover exactly 0..nin-1; no batch needs more scratch
\* space than the ng2 * blocks doubles that operator_alloc_buffers reserved.
C25_ApplyBatches ==
    /\ \A nin \in WrapperNins \cup Nins, mpi_size \in MpiSizes, ndouble \in 1 .. 2 :
         /\ ApplyBlocks(nin, mpi_size, ndouble) >= 1
         /\ nin >= 1 => ApplyBlocks(nin, mpi_size, ndouble) <= nin
    /\ host.fn = "_operator_apply_cuda_gpu" =>
         /\ host.blocks >= 1
         /\ host.nin >= 1 => host.blocks <= host.nin
         /\ dev.last.call = "alloc"
         /\ dev.last.ng2 = ReservedPerBlock * host.blocks
         /\ dev.operator_buf_size >= dev.last.ng2
         /\ Cardinality(BatchCalls) <= Max(0, host.nin)
         /\ \A k \in BatchCalls :
              /\ 0 <= ops[k].n /\ ops[k].n < host.nin
              /\ ops[k].nb = Min(host.blocks, host.nin - ops[k].n)
              /\ 1 <= ops[k].nb /\ ops[k].nb <= host.blocks
              /\ ReservedPerBlock * ops[k].nb <= dev.last.ng2
              /\ \A m \in BatchCalls : m # k => BatchFields(k) \cap BatchFields(m) = {}
              /\ ops[k].n = 0 \/ \E m \in BatchCalls : ops[m].n + ops[m].nb = ops[k].n
         /\ host.pc = "returned" =>
              UNION {BatchFields(k) : k \in BatchCalls} = 0 .. host.nin - 1

\* a call of more fields than the block count allows in one batch has ended
\* after a full batch and a smaller last batch, whose passes overlapped
C25_Witness ==
    /\ host.fn = "_operator_apply_cuda_gpu" /\ host.pc = "returned"
    /\ host.nin = GPU_BLOCKS_MIN + 1 /\ host.blocks = GPU_BLOCKS_MIN
    /\ host.cuda_overlap # 0
    /\ \E k, m \in BatchCalls :
         /\ ops[k].nb = GPU_BLOCKS_MIN
         /\ ops[m].n = GPU_BLOCKS_MIN /\ ops[m].nb = 1

-----------------------------------------------------------------------------
(* The fields of the host apply *)

\* the index range [nstart, nend) of worker thread_id of nthds for nin fields
WorkerRange(thread_id, nin, nthds) ==
    LET c0 == IF nin \div nthds = 0 THEN 1 ELSE nin \div nthds
        nstart == thread_id * c0
        nend == Min(nstart + c0, nin)
    IN  nstart .. nend - 1

\* how many times the stencil has been applied to field f in the call
TimesApplied(f) ==
    Cardinality({k \in 1 .. Len(ops) :
                    IsCompute(ops[k]) /\ f \in ops[k].n .. ops[k].n + ops[k].nb - 1})

\* C26: for nin >= 1 fields, nthds >= 1 workers and a configured chunk size
\* >= 1, the ranges of workers 0..nthds-1 are pairwise disjoint and together
\* cover 0..nin-1; a worker that has returned has processed each index of its
\* range exactly once and no other; and when Operator_apply_cuda_cpu has
\* returned the stencil has been applied to each of the nin fields exactly
\* once.
C26_EveryFieldOnce ==
    host.fn = "apply_worker_cuda_cpu" =>
        /\ \A t, u \in 0 .. host.nthds - 1 :
             t # u => WorkerRange(t, host.nin, host.nthds)
                        \cap WorkerRange(u, host.nin, host.nthds) = {}
        /\ UNION {WorkerRange(t, host.nin, host.nthds) : t \in 0 .. host.nthds - 1}
             = 0 .. host.nin - 1
        /\ host.pc = "returned" =>
             \A f \in 0 .. host.nin - 1 :
                TimesApplied(f) =
                    IF host.wrapper
                       \/ f \in WorkerRange(host.thread_id, host.nin, host.nthds)
                    THEN 1 ELSE 0

\* what holds of one worker: the ranges are pairwise disjoint and lie in
\* 0..nin-1, and a worker that has returned has processed each index of its
\* own range exactly once and no other
C26_WorkerOwnRange ==
    host.fn = "apply_worker_cuda_cpu" =>
        /\ \A t, u \in 0 .. host.nthds - 1 :
             t # u => WorkerRange(t, host.nin, host.nthds)
                        \cap WorkerRange(u, host.nin, host.nthds) = {}
        /\ UNION {WorkerRange(t, host.nin, host.nthds) : t \in 0 .. host.nthds - 1}
             \subseteq 0 .. host.nin - 1
        /\ host.pc = "returned" =>
             \A f \in 0 .. host.nin - 1 :
                TimesApplied(f) =
                    IF f \in WorkerRange(host.thread_id, host.nin, host.nthds)
                    THEN 1 ELSE 0

-----------------------------------------------------------------------------
(* The weight and the Gauss-Seidel branch *)

\* result fields a caller may pass in place of the one passed
OtherResults(s) == {Zeros(NPoints(s)), Ramp(NPoints(s)), Stripes(NPoints(s))}

\* C27: the Gauss-Seidel branch of bmgs_relax does not depend on the weight
\* nor on the previous contents of b: with any other weight and any other
\* result field, and the same stencil, working buffer and source, the sweep
\* leaves the same a and the same b.
C27_WeightIgnored ==
    (args.relax_method = 1 /\ rx.pc = "done") =>
        \A w2 \in Weights, b2 \in OtherResults(args.s) :
            LET other == bmgs_relax([args EXCEPT !.w = w2, !.b = b2])
            IN  other.a = rx.a /\ other.b = rx.b

\* a Gauss-Seidel sweep with a weight other than 1 has overwritten a result
\* field that was not zero
C27_Witness ==
    /\ args.relax_method = 1 /\ rx.pc = "done"
    /\ args.w = Rat(1, 2)
    /\ args.b = Ramp(NPoints(args.s))
    /\ rx.b # args.b
    /\ rx.a # args.a

-----------------------------------------------------------------------------
(* GRID_LOOP_START / GRID_LOOP_STOP of lfc.h: the walk over the boundary    *)
(* points of the localized-function volumes                                 *)

\* volume_W[W] of the LFC object before the loop: W, the number nm of
\* functions and the pointer A_gm, as an offset into the volume's array
VolumeAt(W) == [W |-> W, nm |-> 1 + W, A_gm |-> 100 * (W + 1)]

\* a slot of volume_i that no volume has been copied to
NoVolume == [W |-> -1, nm |-> 0, A_gm |-> 0]

\* phase_kW[k * nW + W]
PhaseAt(k, W) == 10 * (k + 1) + W

\* The boundary lists W_B of a number of points whose every prefix is well
\* formed: an entry W >= 0 enters a volume that is not active, an entry
\* -1 - W leaves a volume that is
RECURSIVE BoundaryLists(_, _, _)
BoundaryLists(nW, active, len) ==
    IF len = 0 THEN {<<>>}
    ELSE UNION {{<<IF W \in active THEN -1 - W ELSE W>> \o rest :
                    rest \in BoundaryLists(nW,
                                           IF W \in active THEN active \ {W}
                                           ELSE active \cup {W},
                                           len - 1)} :
                W \in 0 .. nW - 1}

\* the grid distances between successive boundary points
SegmentLengths == {0, 2}

\* The lists G_B of the grid indices of a number of boundary points
RECURSIVE GridLists(_, _)
GridLists(from, len) ==
    IF len = 0 THEN {<<>>}
    ELSE UNION {{<<from + d>> \o rest : rest \in GridLists(from + d, len - 1)} :
                d \in SegmentLengths}

\* the volumes active after the first B boundary points of W_B
RECURSIVE ActiveAfter(_, _)
ActiveAfter(W_B, B) ==
    IF B = 0 THEN {}
    ELSE LET Wnew == W_B[B - 1]
         IN  IF Wnew >= 0 THEN ActiveAfter(W_B, B - 1) \cup {Wnew}
             ELSE ActiveAfter(W_B, B - 1) \ {-1 - Wnew}

\* the grid points traversed while W was active, over the first B points
RECURSIVE Traversed(_, _, _, _)
Traversed(G_B, W_B, W, B) ==
    IF B = 0 THEN 0
    ELSE LET Ga == IF B = 1 THEN 0 ELSE G_B[B - 2]
             nG == G_B[B - 1] - Ga
         IN  Traversed(G_B, W_B, W, B - 1)
               + (IF nG > 0 /\ W \in ActiveAfter(W_B, B - 1) THEN nG ELSE 0)

\* GRID_LOOP_START up to the loop: Ga = 0, ni = 0
GridLoopEntry(lfc, k) ==
    [pc |-> IF lfc.nB > 0 THEN "segment" ELSE "stop", lfc |-> lfc, k |-> k,
     B |-> 0, Ga |-> 0, ni |-> 0, i_W |-> lfc.i_W, volume_i |-> lfc.volume_i,
     volume_W |-> lfc.volume_W, phase_i |-> lfc.phase_i]

\* the advance of the active volumes, were it by nG for every volume
AdvanceVolumes_ByPoints(q, nG) ==
    [i \in DOMAIN q.volume_i |->
        IF i < q.ni THEN [q.volume_i[i] EXCEPT !.A_gm = @ + nG]
        ELSE q.volume_i[i]]

\* for (i = 0; i < ni; i++) volume_i[i].A_gm += nG * volume_i[i].nm
AdvanceVolumes(q, nG) ==
    [i \in DOMAIN q.volume_i |->
        IF i < q.ni THEN [q.volume_i[i] EXCEPT !.A_gm = @ + nG * q.volume_i[i].nm]
        ELSE q.volume_i[i]]

\* Entering new sphere: volume_i[ni] = volume_W[Wnew]; i_W[Wnew] = ni; ni++
EnterVolume(q, Wnew) ==
    [q EXCEPT !.volume_i[q.ni] = q.volume_W[Wnew],
              !.phase_i[q.ni] = IF q.k >= 0 THEN PhaseAt(q.k, Wnew) ELSE @,
              !.i_W[Wnew] = q.ni,
              !.ni = q.ni + 1]

\* leaving a sphere, were the last slot not moved into the freed one
LeaveVolume_NoMove(q, Wold) ==
    [q EXCEPT !.volume_W[Wold].A_gm = q.volume_i[q.i_W[Wold]].A_gm,
              !.ni = q.ni - 1]

\* Leaving sphere: the pointer copied back, ni--, the last slot moved to the
\* slot of the leaving volume and i_W of the moved volume set
LeaveVolume(q, Wold) ==
    LET iold == q.i_W[Wold]
        ni == q.ni - 1
        moved == q.volume_i[ni]
    IN  [q EXCEPT !.volume_W[Wold].A_gm = q.volume_i[iold].A_gm,
                  !.ni = ni,
                  !.volume_i[iold] = moved,
                  !.phase_i[iold] = IF q.k >= 0 THEN q.phase_i[ni] ELSE @,
                  !.i_W[moved.W] = iold]

\* the LFC objects and k-point indices of the loops followed: nW volumes, a
\* well-formed boundary list of nB points, and ngm_W[W] either nm times the
\* grid points traversed while W is active, or, for volume 0, one more
InitGrid ==
    /\ \E nW \in 1 .. MaxW, nB \in 0 .. MaxB, k \in {-1, 0}, skew \in 0 .. 1 :
       \E W_B \in BoundaryLists(nW, {}, nB), G_B \in GridLists(0, nB) :
         px = GridLoopEntry(
                [nW |-> nW, nB |-> nB, W_B |-> Arr(W_B), G_B |-> Arr(G_B),
                 ngm_W |-> [W \in 0 .. nW - 1 |->
                              VolumeAt(W).nm * Traversed(Arr(G_B), Arr(W_B), W, nB)
                                + (IF W = 0 THEN skew ELSE 0)],
                 i_W |-> [W \in 0 .. nW - 1 |-> -1],
                 volume_i |-> [i \in 0 .. nW - 1 |-> NoVolume],
                 volume_W |-> [W \in 0 .. nW - 1 |-> VolumeAt(W)],
                 phase_i |-> [i \in 0 .. nW - 1 |-> 0]], k)
    /\ args = [relax_method |-> 0]
    /\ rx = [pc |-> "idle"]
    /\ host = IdleHost
    /\ ops = <<>>
    /\ event = [e \in 0 .. 1 |-> 0]
    /\ dev = IdleDev

\* the loop body up to the boundary event: Gb = G_B[B], nG = Gb - Ga and,
\* if nG > 0, the grid segment and the advance of the active volumes
GridSegment ==
    /\ px.pc = "segment"
    /\ LET nG == px.lfc.G_B[px.B] - px.Ga
       IN  px' = [px EXCEPT !.volume_i = IF nG > 0 THEN AdvanceVolumes(px, nG) ELSE @,
                            !.pc = IF px.lfc.W_B[px.B] >= 0 THEN "enter" ELSE "leave"]
    /\ UNCHANGED <<args, rx, host, ops, event, dev>>

\* Wnew >= 0, then Ga = Gb and B++
EnterSphere ==
    /\ px.pc = "enter"
    /\ px' = [EnterVolume(px, px.lfc.W_B[px.B]) EXCEPT
                !.Ga = px.lfc.G_B[px.B], !.B = px.B + 1,
                !.pc = IF px.B + 1 < px.lfc.nB THEN "segment" ELSE "stop"]
    /\ UNCHANGED <<args, rx, host, ops, event, dev>>

\* Wnew < 0, then Ga = Gb and B++
LeaveSphere ==
    /\ px.pc = "leave"
    /\ px' = [LeaveVolume(px, -1 - px.lfc.W_B[px.B]) EXCEPT
                !.Ga = px.lfc.G_B[px.B], !.B = px.B + 1,
                !.pc = IF px.B + 1 < px.lfc.nB THEN "segment" ELSE "stop"]
    /\ UNCHANGED <<args, rx, host, ops, event, dev>>

\* after the loop: volume_W[W].A_gm -= ngm_W[W] for every W
GridLoopStop ==
    /\ px.pc = "stop"
    /\ px' = [px EXCEPT !.volume_W = [W \in DOMAIN @ |->
                                        [@[W] EXCEPT !.A_gm = @ - px.lfc.ngm_W[W]]],
                        !.pc = "done"]
    /\ UNCHANGED <<args, rx, host, ops, event, dev>>

NextGrid == GridSegment \/ EnterSphere \/ LeaveSphere \/ GridLoopStop

SpecGrid == InitGrid /\ [][NextGrid]_vars

-----------------------------------------------------------------------------
(* Properties of the grid loop *)

\* the volumes in the slots 0..ni-1 of volume_i
ActiveSlots == {px.volume_i[i].W : i \in 0 .. px.ni - 1}

\* C28: for a well-formed boundary list, during the loop and after every
\* boundary event 0 <= ni <= nW, the slots 0..ni-1 of volume_i hold pairwise
\* distinct volumes, namely the active ones, and i_W[volume_i[i].W] = i for
\* every i < ni; leaving a volume lowers ni by one and moves the volume of
\* the last active slot into the freed slot, all other active slots staying
\* as they are, also when the leaving volume is itself in the last slot.
C28_ActiveTable ==
    /\ [](/\ 0 <= px.ni /\ px.ni <= px.lfc.nW
          /\ \A i, j \in 0 .. px.ni - 1 :
                i # j => px.volume_i[i].W # px.volume_i[j].W
          /\ \A i \in 0 .. px.ni - 1 :
                /\ px.volume_i[i].W \in 0 .. px.lfc.nW - 1
                /\ px.i_W[px.volume_i[i].W] = i
          /\ ActiveSlots = ActiveAfter(px.lfc.W_B, px.B))
    /\ [][px.pc = "leave" =>
            LET iold == px.i_W[-1 - px.lfc.W_B[px.B]]
                last == px.ni - 1
            IN  /\ px'.ni = last
                /\ iold <= last
                /\ iold < last =>
                      /\ px'.volume_i[iold].W = px.volume_i[last].W
                      /\ px'.volume_i[iold].A_gm = px.volume_i[last].A_gm
                      /\ px'.i_W[px.volume_i[last].W] = iold
                /\ \A i \in 0 .. last - 1 :
                      i # iold => px'.volume_i[i] = px.volume_i[i]]_vars

\* two volumes were entered and the first has left: the second has moved to
\* slot 0
C28_Witness ==
    /\ px.pc \in {"segment", "stop"} /\ px.B = 3 /\ px.lfc.nB >= 3
    /\ px.lfc.W_B[0] = 0 /\ px.lfc.W_B[1] = 1 /\ px.lfc.W_B[2] = -1
    /\ px.ni = 1 /\ px.volume_i[0].W = 1 /\ px.i_W[1] = 0

\* the boundary points whose grid segment has been traversed
SegmentsDone == IF px.pc \in {"enter", "leave"} THEN px.B + 1 ELSE px.B

\* C29: a boundary list in which every entered volume is later left ends
\* with ni = 0; the A_gm pointer of an active volume is its value before the
\* loop plus nm times the grid points traversed since while it was active,
\* and that of a volume that has left has been copied back to volume_W; after
\* the final subtraction volume_W[W].A_gm is its value before the loop
\* whenever ngm_W[W] is nm times the grid points traversed while W was active.
C29_StateRestored ==
    /\ (px.pc \in {"stop", "done"} /\ ActiveAfter(px.lfc.W_B, px.lfc.nB) = {}) =>
          px.ni = 0
    /\ \A i \in 0 .. px.ni - 1 :
          LET W == px.volume_i[i].W
          IN  px.volume_i[i].A_gm =
                VolumeAt(W).A_gm
                  + VolumeAt(W).nm * Traversed(px.lfc.G_B, px.lfc.W_B, W, SegmentsDone)
    /\ px.pc # "done" =>
          \A W \in (0 .. px.lfc.nW - 1) \ ActiveSlots :
             px.volume_W[W].A_gm =
                VolumeAt(W).A_gm
                  + VolumeAt(W).nm * Traversed(px.lfc.G_B, px.lfc.W_B, W, px.B)
    /\ (px.pc = "done" /\ ActiveAfter(px.lfc.W_B, px.lfc.nB) = {}) =>
          \A W \in 0 .. px.lfc.nW - 1 :
             px.lfc.ngm_W[W]
                  = VolumeAt(W).nm * Traversed(px.lfc.G_B, px.lfc.W_B, W, px.lfc.nB)
               => px.volume_W[W].A_gm = VolumeAt(W).A_gm

\* a loop over two volumes that were active together over grid points has
\* ended with every pointer restored
C29_Witness ==
    /\ px.pc = "done" /\ px.lfc.nW = 2 /\ px.ni = 0
    /\ px.lfc.nB >= 4
    /\ ActiveAfter(px.lfc.W_B, px.lfc.nB) = {}
    /\ ActiveAfter(px.lfc.W_B, 2) = {0, 1}
    /\ \A W \in 0 .. 1 :
          /\ Traversed(px.lfc.G_B, px.lfc.W_B, W, px.lfc.nB) > 2
          /\ px.lfc.ngm_W[W] > 0
          /\ px.volume_W[W].A_gm = VolumeAt(W).A_gm

-----------------------------------------------------------------------------
(* The device kernels of gpu/kernels/pwlfc-expand.cpp and their launches     *)

\* the edge of the 16 x 16 thread blocks and the length of the 256 x 1 ones
KernelTile == 16

KernelRow == 256

\* (n + size - 1) / size: the thread blocks that cover n indices
BlocksFor(n, size) == (n + size - 1) \div size

\* one global-memory access: the array, the element and the array's length
Access(arr, idx, len) == [arr |-> arr, idx |-> idx, len |-> len]

\* calculate_residual_kernel_real and _complex for the thread with
\* n = t.x, g = t.y: the accesses it makes
calculate_residual_kernel(t, p) ==
    IF t.y < p.nG /\ t.x < p.nn
    THEN {Access("residual_nG", t.x * p.nG + t.y, p.nn * p.nG),
          Access("wf_nG", t.x * p.nG + t.y, p.nn * p.nG),
          Access("eps_n", t.x, p.nn)}
    ELSE {}

\* pw_insert_16 for the thread with G = t.x; Q_G maps G to itself
pw_insert_16(t, p) ==
    IF t.x < p.nG
    THEN {Access("Q_G", t.x, p.nG), Access("c_G", t.x, p.nG),
          Access("tmp_Q", t.x, p.nQ)}
    ELSE {}

\* pw_insert_many_16 for the thread with G = t.x, b = t.y: the row
\* threadIdx.y == 0 loads Q_G[G] to shared memory, then the guarded store
pw_insert_many_16(t, p) ==
    (IF t.ty = 0 THEN {Access("Q_G", t.x, p.nG)} ELSE {})
    \cup (IF t.x < p.nG /\ t.y < p.nb
          THEN {Access("c_nG", t.x + t.y * p.nG, p.nb * p.nG),
                Access("tmp_nQ", t.x + t.y * p.nQ, p.nb * p.nQ)}
          ELSE {})

\* add_to_density_8 and _16 for the thread with R = t.x
add_to_density(t, p) ==
    IF t.x < p.nR
    THEN {Access("rho_R", t.x, p.nR)}
         \cup {Access("f_n", b, p.nb) : b \in 0 .. p.nb - 1}
         \cup {Access("psit_nR", b * p.nR + t.x, p.nb * p.nR) : b \in 0 .. p.nb - 1}
    ELSE {}

\* the accesses of thread t of a kernel
KernelAccesses(kernel, t, p) ==
    IF kernel \in {"calculate_residual_kernel_real", "calculate_residual_kernel_complex"}
    THEN calculate_residual_kernel(t, p)
    ELSE IF kernel = "pw_insert_16" THEN pw_insert_16(t, p)
    ELSE IF kernel = "pw_insert_many_16" THEN pw_insert_many_16(t, p)
    ELSE add_to_density(t, p)

\* the extents of the index space of a kernel: the indices x and y that the
\* kernel computes from the thread and block numbers
KernelExtent(kernel, p) ==
    IF kernel \in {"calculate_residual_kernel_real", "calculate_residual_kernel_complex"}
    THEN <<p.nn, p.nG>>
    ELSE IF kernel = "pw_insert_16" THEN <<p.nG, KernelTile * BlocksFor(p.nb, KernelTile)>>
    ELSE IF kernel = "pw_insert_many_16" THEN <<p.nG, p.nb>>
    ELSE <<p.nR, 1>>

\* thread t lies inside the index space of the kernel
ThreadInRange(kernel, t, p) ==
    t.x < KernelExtent(kernel, p)[1] /\ t.y < KernelExtent(kernel, p)[2]

\* the threads of block blk of a launch with the given block dimensions
ThreadsOf(blk, dim) ==
    {[tx |-> tx, ty |-> ty, x |-> tx + blk[1] * dim[1], y |-> ty + blk[2] * dim[2]] :
        tx \in 0 .. dim[1] - 1, ty \in 0 .. dim[2] - 1}

\* gpuLaunchKernel(kernel, grid, block, 0, 0, ...)
LaunchKernel(kernel, grid, block, p) ==
    [pc |-> "launched", kernel |-> kernel, grid |-> grid, block |-> block, p |-> p,
     pending |-> (0 .. grid[1] - 1) \X (0 .. grid[2] - 1),
     stray |-> {}, outside |-> {}, handled |-> {}]

\* the array extents of the launches followed
TileExtents == {1, KernelTile, KernelTile + 1}

RowExtents == {1, KernelRow + 1}

InitKernels ==
    /\ px = [pc |-> "host"]
    /\ args = [relax_method |-> 0]
    /\ rx = [pc |-> "idle"]
    /\ host = IdleHost
    /\ ops = <<>>
    /\ event = [e \in 0 .. 1 |-> 0]
    /\ dev = IdleDev

calculate_residual_launch_kernel ==
    /\ px.pc = "host"
    /\ \E nG \in TileExtents, nn \in TileExtents, is_complex \in 0 .. 1 :
         px' = LaunchKernel(IF is_complex # 0 THEN "calculate_residual_kernel_complex"
                            ELSE "calculate_residual_kernel_real",
                            <<BlocksFor(nn, KernelTile), BlocksFor(nG, KernelTile)>>,
                            <<KernelTile, KernelTile>>, [nG |-> nG, nn |-> nn])
    /\ UNCHANGED <<args, rx, host, ops, event, dev>>

pw_insert_gpu_launch_kernel ==
    /\ px.pc = "host"
    /\ \E nb \in TileExtents, nG \in TileExtents :
         px' = LaunchKernel(IF nb = 1 THEN "pw_insert_16" ELSE "pw_insert_many_16",
                            <<BlocksFor(nG, KernelTile), BlocksFor(nb, KernelTile)>>,
                            <<KernelTile, KernelTile>>,
                            [nb |-> nb, nG |-> nG, nQ |-> nG + 1])
    /\ UNCHANGED <<args, rx, host, ops, event, dev>>

add_to_density_gpu_launch_kernel ==
    /\ px.pc = "host"
    /\ \E nb \in 1 .. 2, nR \in RowExtents, wfs_is_complex \in 0 .. 1 :
         px' = LaunchKernel(IF wfs_is_complex # 0 THEN "add_to_density_16"
                            ELSE "add_to_density_8",
                            <<BlocksFor(nR, KernelRow), 1>>, <<KernelRow, 1>>,
                            [nb |-> nb, nR |-> nR])
    /\ UNCHANGED <<args, rx, host, ops, event, dev>>

\* the device runs one of the thread blocks of the launch, in any order:
\* stray collects the accesses made by threads outside the index space,
\* outside the accesses beyond the end of an array, handled the indices of
\* the threads inside the index space
RunThreadBlock ==
    /\ px.pc = "launched"
    /\ \E blk \in px.pending :
         LET ts == ThreadsOf(blk, px.block)
             out == {t \in ts : ~ThreadInRange(px.kernel, t, px.p)}
         IN  px' = [px EXCEPT
                      !.pending = @ \ {blk},
                      !.stray = @ \cup UNION {KernelAccesses(px.kernel, t, px.p) : t \in out},
                      !.outside = @ \cup {a \in UNION {KernelAccesses(px.kernel, t, px.p) :
                                                          t \in ts} : a.idx >= a.len},
                      !.handled = @ \cup {<<t.x, t.y>> : t \in ts \ out},
                      !.pc = IF px.pending = {blk} THEN "done" ELSE "launched"]
    /\ UNCHANGED <<args, rx, host, ops, event, dev>>

NextKernels ==
    \/ calculate_residual_launch_kernel \/ pw_insert_gpu_launch_kernel
    \/ add_to_density_gpu_launch_kernel \/ RunThreadBlock

SpecKernels == InitKernels /\ [][NextKernels]_vars

\* the launches of SpecKernels
Launched == px.pc \in {"launched", "done"}

\* C30: in every launch of the launch wrappers, whose grid is rounded up to
\* whole thread blocks, a thread whose global index lies outside the array
\* extents makes no global-memory read or write, also in pw_insert_many_16
\* when nG is not a multiple of 16, and when the kernel has finished every
\* index inside the extents has been handled by a thread.
C30_BoundsGuarded ==
    Launched =>
        /\ px.stray = {}
        /\ px.outside = {}
        /\ px.pc = "done" =>
              px.handled = (0 .. KernelExtent(px.kernel, px.p)[1] - 1)
                              \X (0 .. KernelExtent(px.kernel, px.p)[2] - 1)

\* the same for the kernels other than pw_insert_many_16
C30_BoundsGuardedOthers ==
    (Launched /\ px.kernel # "pw_insert_many_16") =>
        /\ px.stray = {}
        /\ px.outside = {}
        /\ px.pc = "done" =>
              px.handled = (0 .. KernelExtent(px.kernel, px.p)[1] - 1)
                              \X (0 .. KernelExtent(px.kernel, px.p)[2] - 1)

\* pw_insert_many_16 stays inside its arrays when nG is a multiple of 16
C30_ManyGuardedOnWholeTiles ==
    (Launched /\ px.kernel = "pw_insert_many_16" /\ px.p.nG % KernelTile = 0) =>
        px.stray = {} /\ px.outside = {}

=============================================================================
